---- MODULE Spec2Model ----
(***************************************************************************)
(* A model of the multi-pattern proxy (server.js, the caching version):    *)
(* the path resolver, the URL builder, the allow-list matcher, the         *)
(* file-backed response cache and the request pipeline that wires them.    *)
(*                                                                         *)
(* A JavaScript string is a sequence of one-character strings, so that     *)
(* endsWith, slice, split, join, replace and encodeURIComponent are        *)
(* computed character by character, as the code computes them.  A          *)
(* JavaScript object is a function whose DOMAIN is its set of keys.        *)
(***************************************************************************)
EXTENDS Integers, Sequences, FiniteSets, TLC

VARIABLES
  USE_POSITIONAL_PARAMS,  \* process.env.USE_POSITIONAL_PARAMS === "true"
  URL_PATTERNS_ENV,       \* TRUE: URL_PATTERNS was given (multi-pattern mode); FALSE: URL_PATTERN
  URL_PATTERNS,           \* service -> template, cache flag removed
  CACHE_TIMEOUTS,         \* service -> seconds, 0 = no caching
  ALLOWED,                \* sequence of rules, each a function name -> RegExp source
  CACHE_API_KEY,          \* the configured key, or <<>> when none is configured
  CACHE_CLEANUP_INTERVAL, \* seconds between two timer sweeps
  now,                    \* Date.now(), in seconds
  cacheFiles,             \* the files under /cache: <<service, file name>> -> file
  req,                    \* per request slot: the request whose handler awaits its fetch, or IdleReq
  sent,                   \* the request whose handler ended in the last step, with its response
  sweepTimer,             \* the cleanup scheduler: "off", "initial" or "interval"
  sweepDue,               \* the time at which the timer of the scheduler fires
  mgmt,                   \* the cache-management response sent, or the sweep run, in the last step
  inService, inPath,      \* the request under study, where a specification fixes one
  mPattern, mValue, mResult, \* the allow-list matcher applied on its own
  env,                    \* process.env: URL_PATTERNS, URL_PATTERN, USE_POSITIONAL_PARAMS
  process                 \* "starting", "listening" (app.listen was called) or "exited"

vars == <<USE_POSITIONAL_PARAMS, URL_PATTERNS_ENV, URL_PATTERNS, CACHE_TIMEOUTS, ALLOWED,
          CACHE_API_KEY, CACHE_CLEANUP_INTERVAL, now, cacheFiles, req, sent, sweepTimer,
          sweepDue, mgmt, inService, inPath, mPattern, mValue, mResult, env, process>>

configVars == <<USE_POSITIONAL_PARAMS, URL_PATTERNS_ENV, URL_PATTERNS, CACHE_TIMEOUTS,
                ALLOWED, CACHE_API_KEY, CACHE_CLEANUP_INTERVAL, env, process>>

matcherVars == <<inService, inPath, mPattern, mValue, mResult>>

-----------------------------------------------------------------------------
(* Strings *)

\* The empty string; also what JavaScript's null / undefined are read as by `if (x)`.
null == <<>>

sSlash == <<"/">>
sLast == <<"-", "l", "a", "s", "t">>

WordChars ==
  {"a","b","c","d","e","f","g","h","i","j","k","l","m","n","o","p","q","r","s","t",
   "u","v","w","x","y","z","A","B","C","D","E","F","G","H","I","J","K","L","M","N",
   "O","P","Q","R","S","T","U","V","W","X","Y","Z","0","1","2","3","4","5","6","7",
   "8","9","_"}

DigitChars == <<"0","1","2","3","4","5","6","7","8","9">>

IsDigit(c) == \E d \in 1..Len(DigitChars) : DigitChars[d] = c

DigitVal(c) == (CHOOSE d \in 1..Len(DigitChars) : DigitChars[d] = c) - 1

\* Array.prototype.join
RECURSIVE Join(_, _)
Join(parts, sep) ==
  IF parts = <<>> THEN <<>>
  ELSE IF Len(parts) = 1 THEN parts[1]
  ELSE parts[1] \o sep \o Join(Tail(parts), sep)

IndexOf(s, c) ==
  IF \E k \in 1..Len(s) : s[k] = c
  THEN CHOOSE k \in 1..Len(s) : s[k] = c /\ \A j \in 1..(k-1) : s[j] # c
  ELSE 0

\* String.prototype.includes, for a one-character needle
Includes(s, c) == IndexOf(s, c) # 0

\* A split at the first separator only
SplitOnce(s, c) ==
  IF IndexOf(s, c) = 0 THEN <<s>>
  ELSE <<SubSeq(s, 1, IndexOf(s, c) - 1), SubSeq(s, IndexOf(s, c) + 1, Len(s))>>

\* String.prototype.split, for a one-character separator
RECURSIVE Split(_, _)
Split(s, c) ==
  LET k == IndexOf(s, c) IN
  IF k = 0 THEN <<s>>
  ELSE <<SubSeq(s, 1, k-1)>> \o Split(SubSeq(s, k+1, Len(s)), c)

\* String.prototype.endsWith
EndsWith(s, suffix) ==
  /\ Len(s) >= Len(suffix)
  /\ SubSeq(s, Len(s) - Len(suffix) + 1, Len(s)) = suffix

\* Array.prototype.filter(s => s): drop the empty segments
RECURSIVE FilterNonEmpty(_)
FilterNonEmpty(segs) ==
  IF segs = <<>> THEN <<>>
  ELSE IF Head(segs) = <<>> THEN FilterNonEmpty(Tail(segs))
  ELSE <<Head(segs)>> \o FilterNonEmpty(Tail(segs))

\* Number("12")
RECURSIVE Number(_)
Number(p) ==
  IF p = <<>> THEN 0
  ELSE 10 * Number(SubSeq(p, 1, Len(p) - 1)) + DigitVal(p[Len(p)])

\* (12).toString()
RECURSIVE NumToString(_)
NumToString(n) ==
  IF n < 10 THEN <<DigitChars[n + 1]>>
  ELSE NumToString(n \div 10) \o <<DigitChars[(n % 10) + 1]>>

\* An assignment that keeps the value a key already has
PutKeepFirst(obj, key, value) == obj @@ (key :> value)

\* obj[key] = value
Put(obj, key, value) == (key :> value) @@ obj

\* `obj[key]` read as a condition: present and not the empty string
Truthy(obj, key) == key \in DOMAIN obj /\ obj[key] # <<>>

\* `obj[key] || ""`
ValueOrEmpty(obj, key) == IF key \in DOMAIN obj THEN obj[key] ELSE <<>>

-----------------------------------------------------------------------------
(* encodeURIComponent *)

Unreserved == WordChars \cup {"-", ".", "!", "~", "*", "'", "(", ")"}

PercentCode(c) ==
  CASE c = " " -> <<"%", "2", "0">>
    [] c = "/" -> <<"%", "2", "F">>
    [] c = "%" -> <<"%", "2", "5">>
    [] c = ":" -> <<"%", "3", "A">>
    [] c = "{" -> <<"%", "7", "B">>
    [] c = "}" -> <<"%", "7", "D">>
    [] c = "|" -> <<"%", "7", "C">>
    [] c = "=" -> <<"%", "3", "D">>

RECURSIVE encodeURIComponent(_)
encodeURIComponent(s) ==
  IF s = <<>> THEN <<>>
  ELSE (IF Head(s) \in Unreserved THEN <<Head(s)>> ELSE PercentCode(Head(s)))
       \o encodeURIComponent(Tail(s))

-----------------------------------------------------------------------------
(* The placeholder regular expression /\{(\w+)\}/g *)

\* The last index of the run of \w characters that starts at i (i-1 when there is none)
RECURSIVE WordRunEnd(_, _)
WordRunEnd(s, i) ==
  IF i <= Len(s) /\ s[i] \in WordChars THEN WordRunEnd(s, i + 1) ELSE i - 1

\* /\{(\w+)\}/ matches at i
PlaceholderAt(s, i) ==
  /\ s[i] = "{"
  /\ LET e == WordRunEnd(s, i + 1) IN
       e >= i + 1 /\ e + 1 <= Len(s) /\ s[e + 1] = "}"

\* [...pattern.matchAll(/\{(\w+)\}/g)].map((m) => m[1])
RECURSIVE PlaceholdersFrom(_, _)
PlaceholdersFrom(pattern, i) ==
  IF i > Len(pattern) THEN <<>>
  ELSE IF PlaceholderAt(pattern, i)
       THEN LET e == WordRunEnd(pattern, i + 1) IN
            <<SubSeq(pattern, i + 1, e)>> \o PlaceholdersFrom(pattern, e + 2)
       ELSE PlaceholdersFrom(pattern, i + 1)

Placeholders(pattern) == PlaceholdersFrom(pattern, 1)

-----------------------------------------------------------------------------
(* Helpers of the pipeline *)

\* validatePlaceholders: the first placeholder of the pattern without a value, or null
RECURSIVE FirstMissing(_, _)
FirstMissing(placeholders, params) ==
  IF placeholders = <<>> THEN null
  ELSE IF ~Truthy(params, Head(placeholders)) THEN Head(placeholders)
  ELSE FirstMissing(Tail(placeholders), params)

validatePlaceholders(pattern, params) == FirstMissing(Placeholders(pattern), params)

\* The replacement callback of buildUrl
EncodeValue(positional, value) ==
  IF positional /\ Includes(value, "/")
  THEN LET pieces == Split(value, "/") IN
       Join([k \in 1..Len(pieces) |-> encodeURIComponent(pieces[k])], sSlash)
  ELSE encodeURIComponent(value)

\* buildUrl: pattern.replace(/\{(\w+)\}/g, callback)
RECURSIVE BuildFrom(_, _, _, _)
BuildFrom(pattern, params, positional, i) ==
  IF i > Len(pattern) THEN <<>>
  ELSE IF PlaceholderAt(pattern, i)
       THEN LET e == WordRunEnd(pattern, i + 1)
                key == SubSeq(pattern, i + 1, e) IN
            EncodeValue(positional, ValueOrEmpty(params, key))
              \o BuildFrom(pattern, params, positional, e + 2)
       ELSE <<pattern[i]>> \o BuildFrom(pattern, params, positional, i + 1)

buildUrl(pattern, params, positional) == BuildFrom(pattern, params, positional, 1)

-----------------------------------------------------------------------------
(* The allow-list: wildcard patterns compiled to regular expressions *)

\* value.replace(/\*/g, ".*")
RECURSIVE ReplaceStars(_)
ReplaceStars(value) ==
  IF value = <<>> THEN <<>>
  ELSE (IF Head(value) = "*" THEN <<".", "*">> ELSE <<Head(value)>>)
       \o ReplaceStars(Tail(value))

\* A compilation that forgets the leading anchor
CompileUnanchored(value) == ReplaceStars(value) \o <<"$">>

\* new RegExp(`^${regexValue}$`): the source of the regular expression
CompileRule(value) == <<"^">> \o ReplaceStars(value) \o <<"$">>

\* One atom of a regular expression against one character ("." is any character)
AtomMatches(atom, c) == atom = "." \/ atom = c

\* The regular expression from index i matches s from index j on.  The syntax
\* covered: literal characters, ".", a postfix "*", a final "$".
RECURSIVE MatchHere(_, _, _, _)
MatchHere(re, i, s, j) ==
  IF i > Len(re) THEN TRUE
  ELSE IF re[i] = "$" /\ i = Len(re) THEN j = Len(s) + 1
  ELSE IF i < Len(re) /\ re[i + 1] = "*"
       THEN \/ MatchHere(re, i + 2, s, j)
            \/ (j <= Len(s) /\ AtomMatches(re[i], s[j]) /\ MatchHere(re, i, s, j + 1))
  ELSE j <= Len(s) /\ AtomMatches(re[i], s[j]) /\ MatchHere(re, i + 1, s, j + 1)

\* RegExp.prototype.test
RegexTest(re, s) ==
  IF re # <<>> /\ re[1] = "^"
  THEN MatchHere(re, 2, s, 1)
  ELSE \E start \in 1..(Len(s) + 1) : MatchHere(re, 1, s, start)

\* The parse of the ALLOWED rules: a constraint with an empty pattern is dropped,
\* and so is a rule left with no constraint.
CompileRuleObject(rule) ==
  [k \in {n \in DOMAIN rule : rule[n] # <<>>} |-> CompileRule(rule[k])]

RECURSIVE CompileAllowed(_)
CompileAllowed(rules) ==
  IF rules = <<>> THEN <<>>
  ELSE LET obj == CompileRuleObject(Head(rules)) IN
       (IF DOMAIN obj = {} THEN <<>> ELSE <<obj>>) \o CompileAllowed(Tail(rules))

\* isAllowed with the conjunction over a rule's constraints turned into a disjunction
isAllowedAny(allowed, params) ==
  IF Len(allowed) = 0 THEN TRUE
  ELSE \E r \in 1..Len(allowed) :
         \E k \in DOMAIN allowed[r] :
           Truthy(params, k) /\ RegexTest(allowed[r][k], params[k])

\* isAllowed
isAllowed(allowed, params) ==
  IF Len(allowed) = 0 THEN TRUE
  ELSE \E r \in 1..Len(allowed) :
         \A k \in DOMAIN allowed[r] :
           Truthy(params, k) /\ RegexTest(allowed[r][k], params[k])

-----------------------------------------------------------------------------
(* Path resolution, the first part of processRequest *)

\* numericPlaceholders: the placeholders matching /^\d+$/, as numbers
NumericPlaceholders(pattern) ==
  LET ps == Placeholders(pattern) IN
  {Number(ps[k]) : k \in {j \in 1..Len(ps) : \A d \in 1..Len(ps[j]) : IsDigit(ps[j][d])}}

\* Math.max(...numericPlaceholders); -1 stands for the -Infinity of an empty list,
\* which no paramIndex equals either.
MaxPlaceholder(pattern) ==
  LET ns == NumericPlaceholders(pattern) IN
  IF ns = {} THEN -1 ELSE CHOOSE m \in ns : \A n \in ns : n <= m

\* The positional loop without the capture of the remaining segments
RECURSIVE PositionalNoCapture(_, _, _, _)
PositionalNoCapture(segments, maxPlaceholder, i, params) ==
  IF i > Len(segments) THEN params
  ELSE PositionalNoCapture(segments, maxPlaceholder, i + 1,
                           Put(params, NumToString(i), segments[i]))

\* The positional loop; i is paramIndex (the code's i + 1)
RECURSIVE PositionalLoop(_, _, _, _)
PositionalLoop(segments, maxPlaceholder, i, params) ==
  IF i > Len(segments) THEN params
  ELSE IF i = maxPlaceholder /\ i < Len(segments)
       THEN Put(params, NumToString(i), Join(SubSeq(segments, i, Len(segments)), sSlash))
       ELSE PositionalLoop(segments, maxPlaceholder, i + 1,
                           Put(params, NumToString(i), segments[i]))

ResolvePositional(pattern, segments) ==
  [error |-> "", arg |-> null,
   params |-> PositionalLoop(segments, MaxPlaceholder(pattern), 1, <<>>)]

\* The named loop with the parity check made before the capture
RECURSIVE NamedLoopStrict(_, _, _)
NamedLoopStrict(segments, k, params) ==
  IF Len(segments) % 2 # 0
  THEN [error |-> "Invalid number of URL segments", arg |-> null, params |-> params,
        foundLastParam |-> FALSE]
  ELSE IF k > Len(segments)
  THEN [error |-> "", arg |-> null, params |-> params, foundLastParam |-> FALSE]
  ELSE LET key == segments[k] IN
       IF EndsWith(key, sLast)
       THEN [error |-> "", arg |-> null, foundLastParam |-> TRUE,
             params |-> Put(params, SubSeq(key, 1, Len(key) - Len(sLast)),
                            Join(SubSeq(segments, k + 1, Len(segments)), sSlash))]
       ELSE NamedLoopStrict(segments, k + 2, Put(params, key, segments[k + 1]))

\* The named loop that leaves a key without a value to the check after the loop
RECURSIVE NamedLoopLenient(_, _, _)
NamedLoopLenient(segments, k, params) ==
  IF k > Len(segments) \/ k = Len(segments)
  THEN [error |-> "", arg |-> null, params |-> params, foundLastParam |-> FALSE]
  ELSE LET key == segments[k] IN
       IF EndsWith(key, sLast)
       THEN [error |-> "", arg |-> null, foundLastParam |-> TRUE,
             params |-> Put(params, SubSeq(key, 1, Len(key) - Len(sLast)),
                            Join(SubSeq(segments, k + 1, Len(segments)), sSlash))]
       ELSE NamedLoopLenient(segments, k + 2, Put(params, key, segments[k + 1]))

\* The named loop; k is the index of the key (the code's i + 1)
RECURSIVE NamedLoop(_, _, _)
NamedLoop(segments, k, params) ==
  IF k > Len(segments)
  THEN [error |-> "", arg |-> null, params |-> params, foundLastParam |-> FALSE]
  ELSE LET key == segments[k] IN
       IF EndsWith(key, sLast) /\ k + 1 <= Len(segments)
       THEN [error |-> "", arg |-> null, foundLastParam |-> TRUE,
             params |-> Put(params, SubSeq(key, 1, Len(key) - Len(sLast)),
                            Join(SubSeq(segments, k + 1, Len(segments)), sSlash))]
       ELSE IF k + 1 <= Len(segments)
       THEN NamedLoop(segments, k + 2, Put(params, key, segments[k + 1]))
       ELSE [error |-> "Missing value for key: ", arg |-> key, params |-> params,
             foundLastParam |-> FALSE]

\* The check for an odd number of segments that follows the named loop
NamedResult(r, segments) ==
  IF r.error # "" THEN [error |-> r.error, arg |-> r.arg, params |-> r.params]
  ELSE IF ~r.foundLastParam /\ Len(segments) % 2 # 0
  THEN [error |-> "Invalid number of URL segments", arg |-> null, params |-> r.params]
  ELSE [error |-> "", arg |-> null, params |-> r.params]

ResolveNamed(segments) == NamedResult(NamedLoop(segments, 1, <<>>), segments)

-----------------------------------------------------------------------------
(* Startup: the pattern table and the cache timeouts *)

sCacheFlag == <<"|", "c", "a", "c", "h", "e", ":">>

RECURSIVE DigitRunEnd(_, _)
DigitRunEnd(s, i) ==
  IF i <= Len(s) /\ IsDigit(s[i]) THEN DigitRunEnd(s, i + 1) ELSE i - 1

\* /\|cache:(\d+)/ matches at i
CacheFlagAt(s, i) ==
  /\ i + Len(sCacheFlag) <= Len(s)
  /\ SubSeq(s, i, i + Len(sCacheFlag) - 1) = sCacheFlag
  /\ IsDigit(s[i + Len(sCacheFlag)])

\* The index of the first match of /\|cache:(\d+)/, or 0
CacheFlagIndex(s) ==
  IF \E i \in 1..Len(s) : CacheFlagAt(s, i)
  THEN CHOOSE i \in 1..Len(s) : CacheFlagAt(s, i) /\ \A j \in 1..(i - 1) : ~CacheFlagAt(s, j)
  ELSE 0

parseCacheTimeout(pattern) ==
  LET i == CacheFlagIndex(pattern) IN
  IF i = 0 THEN 0
  ELSE Number(SubSeq(pattern, i + Len(sCacheFlag),
                     DigitRunEnd(pattern, i + Len(sCacheFlag))))

removeCacheFlag(pattern) ==
  LET i == CacheFlagIndex(pattern) IN
  IF i = 0 THEN pattern
  ELSE SubSeq(pattern, 1, i - 1)
       \o SubSeq(pattern, DigitRunEnd(pattern, i + Len(sCacheFlag)) + 1, Len(pattern))

sEq == <<"=">>
sComma == <<",">>

\* The property name a string of characters is used as
RECURSIVE NameOf(_)
NameOf(chars) == IF chars = <<>> THEN "" ELSE chars[1] \o NameOf(Tail(chars))

\* A start that accepts both variables, URL_PATTERNS taking precedence
StartupErrorMultiWins(patternsEnv, patternEnv) ==
  IF patternsEnv = null /\ patternEnv = null THEN "missing" ELSE ""

\* The two checks that end in process.exit(1): "" when the start goes on
StartupError(patternsEnv, patternEnv) ==
  IF patternsEnv # null /\ patternEnv # null THEN "both"
  ELSE IF patternsEnv = null /\ patternEnv = null THEN "missing"
  ELSE ""

\* const [key, url] = entry.split("="): url is undefined when there is no "="
EntryKey(entry) == Split(entry, "=")[1]
EntryUrl(entry) == IF Len(Split(entry, "=")) >= 2 THEN Split(entry, "=")[2] ELSE null

\* for (const entry of ...): if (key && url) URL_PATTERNS[key] = url
RECURSIVE ParseEntries(_, _)
ParseEntries(entries, patterns) ==
  IF entries = <<>> THEN patterns
  ELSE ParseEntries(Tail(entries),
                    IF EntryKey(Head(entries)) # null /\ EntryUrl(Head(entries)) # null
                    THEN (NameOf(EntryKey(Head(entries))) :> EntryUrl(Head(entries)))
                         @@ patterns
                    ELSE patterns)

\* The pattern table before the cache flags are read and removed
ParsePatterns(patternsEnv, patternEnv) ==
  IF patternsEnv # null THEN ParseEntries(Split(patternsEnv, ","), <<>>)
  ELSE IF patternEnv # null THEN ("DEFAULT" :> patternEnv)
  ELSE <<>>

-----------------------------------------------------------------------------
(* The cache directory.  cacheFiles.dirs is the set of service directories   *)
(* under /cache; cacheFiles.files maps <<service, key, extension>> to the    *)
(* file [data, mtime].                                                       *)

EmptyCache == [dirs |-> {}, files |-> <<>>]

\* generateCacheKey: the MD5 digest of the target URL, taken as injective, so
\* the key stands for the URL it was computed from.
generateCacheKeyOfParams(targetUrl, params) == [md5 |-> targetUrl, params |-> params]

generateCacheKey(targetUrl, params) == [md5 |-> targetUrl]

\* getCacheFilePaths, the paths it returns
getCacheFilePaths(service, cacheKey) ==
  [content |-> <<service, cacheKey, ".cache">>,
   metadata |-> <<service, cacheKey, ".meta">>]

\* ensureCacheDir: the directory is made when it is missing
ensureCacheDir(fs, service) == [fs EXCEPT !.dirs = @ \cup {service}]

Exists(fs, path) == path \in DOMAIN fs.files

\* isCacheValid that looks at the content file only
isCacheValidContentOnly(fs, cacheFilePaths, cacheTimeout, t) ==
  Exists(fs, cacheFilePaths.content)

\* isCacheValid that still takes an entry whose age is the timeout
isCacheValidInclusive(fs, cacheFilePaths, cacheTimeout, t) ==
  /\ Exists(fs, cacheFilePaths.content) /\ Exists(fs, cacheFilePaths.metadata)
  /\ (t - fs.files[cacheFilePaths.metadata].mtime) <= cacheTimeout

\* isCacheValid
isCacheValid(fs, cacheFilePaths, cacheTimeout, t) ==
  IF ~Exists(fs, cacheFilePaths.content) \/ ~Exists(fs, cacheFilePaths.metadata)
  THEN FALSE
  ELSE (t - fs.files[cacheFilePaths.metadata].mtime) < cacheTimeout

\* readCacheFile: null (FALSE here) when a read or the JSON parse throws
readCacheFile(fs, cacheFilePaths, io) ==
  IF io = "read" \/ ~Exists(fs, cacheFilePaths.metadata) \/ ~Exists(fs, cacheFilePaths.content)
  THEN [ok |-> FALSE, metadata |-> [contentType |-> "", timestamp |-> 0], content |-> ""]
  ELSE [ok |-> TRUE, metadata |-> fs.files[cacheFilePaths.metadata].data,
        content |-> fs.files[cacheFilePaths.content].data]

WriteFile(fs, path, data, t) ==
  [fs EXCEPT !.files = (path :> [data |-> data, mtime |-> t]) @@ @]

\* A store that keeps an entry that is already there: the first write wins
writeCacheFileIfAbsent(fs, cacheFilePaths, content, contentType, t, io) ==
  IF Exists(fs, cacheFilePaths.content) /\ Exists(fs, cacheFilePaths.metadata) THEN fs
  ELSE WriteFile(WriteFile(fs, cacheFilePaths.metadata,
                           [contentType |-> contentType, timestamp |-> t], t),
                 cacheFilePaths.content, content, t)

\* A store that writes the content before the metadata
writeCacheFileContentFirst(fs, cacheFilePaths, content, contentType, t, io) ==
  IF io = "writeContent" THEN fs
  ELSE IF io = "writeMeta" THEN WriteFile(fs, cacheFilePaths.content, content, t)
  ELSE WriteFile(WriteFile(fs, cacheFilePaths.metadata,
                           [contentType |-> contentType, timestamp |-> t], t),
                 cacheFilePaths.content, content, t)

\* writeCacheFile: metadata first, then content; a throw is caught and logged
writeCacheFile(fs, cacheFilePaths, content, contentType, t, io) ==
  IF io = "writeMeta" THEN fs
  ELSE LET withMeta == WriteFile(fs, cacheFilePaths.metadata,
                                 [contentType |-> contentType, timestamp |-> t], t) IN
       IF io = "writeContent" THEN withMeta
       ELSE WriteFile(withMeta, cacheFilePaths.content, content, t)

-----------------------------------------------------------------------------
(* Responses *)

NoResponse == [status |-> 0, error |-> "", arg |-> null, headers |-> <<>>, body |-> ""]

\* res.status(status).json({ error: error + arg })
JsonError(status, error, arg) ==
  [status |-> status, error |-> error, arg |-> arg,
   headers |-> ("Content-Type" :> "application/json"), body |-> ""]

\* The Content-Disposition header, set when params.filename is truthy
sFilename == <<"f", "i", "l", "e", "n", "a", "m", "e">>

WithDisposition(headers, params) ==
  IF Truthy(params, sFilename)
  THEN ("Content-Disposition" :> params[sFilename]) @@ headers
  ELSE headers

Max(a, b) == IF a >= b THEN a ELSE b

\* The response of a cache hit
HitResponse(cached, cacheTimeout, params, t) ==
  LET cacheAgeSeconds == t - cached.metadata.timestamp
      cacheExpiresInSeconds == Max(0, cacheTimeout - cacheAgeSeconds) IN
  [status |-> 200, error |-> "", arg |-> null, body |-> cached.content,
   headers |-> WithDisposition(
     [h \in {"Access-Control-Allow-Origin", "Content-Type", "X-Cache", "X-Cache-Age",
             "X-Cache-Expires-In", "X-Cache-Expires-At", "Cache-Control"} |->
        CASE h = "Access-Control-Allow-Origin" -> "*"
          [] h = "Content-Type" ->
               IF cached.metadata.contentType # "" THEN cached.metadata.contentType
               ELSE "application/octet-stream"
          [] h = "X-Cache" -> "HIT"
          [] h = "X-Cache-Age" -> cacheAgeSeconds
          [] h = "X-Cache-Expires-In" -> cacheExpiresInSeconds
          [] h = "X-Cache-Expires-At" -> cached.metadata.timestamp + cacheTimeout
          [] h = "Cache-Control" -> <<"public, max-age=", cacheExpiresInSeconds>>], params)]

\* A fetched response marked MISS whatever the route
CacheStatusMiss(useCache) == "MISS"

\* if (useCache) X-Cache: MISS, else X-Cache: DISABLED
CacheStatus(useCache) == IF useCache THEN "MISS" ELSE "DISABLED"

\* The response of a successful upstream fetch
FetchedResponse(buffer, contentType, useCache, cacheTimeout, params, t) ==
  [status |-> 200, error |-> "", arg |-> null, body |-> buffer,
   headers |-> WithDisposition(
     IF useCache
     THEN [h \in {"Access-Control-Allow-Origin", "Content-Type", "X-Cache", "X-Cache-Age",
                  "X-Cache-Expires-In", "X-Cache-Expires-At", "Cache-Control"} |->
             CASE h = "Access-Control-Allow-Origin" -> "*"
               [] h = "Content-Type" -> contentType
               [] h = "X-Cache" -> CacheStatus(useCache)
               [] h = "X-Cache-Age" -> 0
               [] h = "X-Cache-Expires-In" -> cacheTimeout
               [] h = "X-Cache-Expires-At" -> t + cacheTimeout
               [] h = "Cache-Control" -> <<"public, max-age=", cacheTimeout>>]
     ELSE [h \in {"Access-Control-Allow-Origin", "Content-Type", "X-Cache",
                  "Cache-Control"} |->
             CASE h = "Access-Control-Allow-Origin" -> "*"
               [] h = "Content-Type" -> contentType
               [] h = "X-Cache" -> CacheStatus(useCache)
               [] h = "Cache-Control" -> <<"no-cache">>], params)]

-----------------------------------------------------------------------------
(* processRequest, up to the upstream fetch *)

\* What the cache check of a request saw and did (kept for the properties)
NoLookup ==
  [done |-> FALSE, io |-> "ok", contentExists |-> FALSE, metadataExists |-> FALSE,
   age |-> 0, valid |-> FALSE, read |-> FALSE]

IdleReq ==
  [pc |-> "idle", service |-> "", path |-> null, segments |-> <<>>, params |-> <<>>,
   stage |-> "", targetUrl |-> null, fetches |-> 0, lookup |-> NoLookup,
   upstream |-> "", upstreamStatus |-> 0, storeIo |-> "ok", response |-> NoResponse]

Resolve(pattern, segments) ==
  IF USE_POSITIONAL_PARAMS THEN ResolvePositional(pattern, segments)
  ELSE ResolveNamed(segments)

Built(pattern, params) ==
  [stage |-> "build", params |-> params, response |-> NoResponse,
   targetUrl |-> buildUrl(pattern, params, USE_POSITIONAL_PARAMS)]

\* The build of the target URL although a placeholder is missing
ValidateNothing(pattern, params, missing) ==
  IF ~isAllowed(ALLOWED, params)
  THEN [stage |-> "authorize", params |-> params, targetUrl |-> null,
        response |-> JsonError(403, "Request not allowed", null)]
  ELSE Built(pattern, params)

\* The build of the target URL whatever the allow-list says
AuthorizeNothing(pattern, params, missing) ==
  IF missing # null
  THEN [stage |-> "validate", params |-> params, targetUrl |-> null,
        response |-> JsonError(400, "Missing required parameter: ", missing)]
  ELSE Built(pattern, params)

\* The allow-list check made before the validation of the placeholders
AuthorizeFirst(pattern, params, missing) ==
  IF ~isAllowed(ALLOWED, params)
  THEN [stage |-> "authorize", params |-> params, targetUrl |-> null,
        response |-> JsonError(403, "Request not allowed", null)]
  ELSE IF missing # null
  THEN [stage |-> "validate", params |-> params, targetUrl |-> null,
        response |-> JsonError(400, "Missing required parameter: ", missing)]
  ELSE Built(pattern, params)

\* processRequest after resolution: validation, the allow-list check, the build
ValidateAuthorizeBuild(pattern, params, missing) ==
  IF missing # null
  THEN [stage |-> "validate", params |-> params, targetUrl |-> null,
        response |-> JsonError(400, "Missing required parameter: ", missing)]
  ELSE IF ~isAllowed(ALLOWED, params)
  THEN [stage |-> "authorize", params |-> params, targetUrl |-> null,
        response |-> JsonError(403, "Request not allowed", null)]
  ELSE Built(pattern, params)

\* processRequest once the segments are resolved (or the named loop has answered 400)
AfterResolve(pattern, resolved) ==
  IF resolved.error # ""
  THEN [stage |-> "resolve", params |-> resolved.params, targetUrl |-> null,
        response |-> JsonError(400, resolved.error, resolved.arg)]
  ELSE ValidateAuthorizeBuild(pattern, resolved.params,
                              validatePlaceholders(pattern, resolved.params))

\* processRequest up to the build of the target URL
PreFetch(service, segments) ==
  AfterResolve(URL_PATTERNS[service], Resolve(URL_PATTERNS[service], segments))

\* What the cache check found on disk
Seen(fs, cacheFilePaths, t, io) ==
  [done |-> TRUE, io |-> io,
   contentExists |-> Exists(fs, cacheFilePaths.content),
   metadataExists |-> Exists(fs, cacheFilePaths.metadata),
   age |-> IF Exists(fs, cacheFilePaths.metadata)
           THEN t - fs.files[cacheFilePaths.metadata].mtime ELSE 0,
   valid |-> FALSE, read |-> FALSE]

\* The cache check once isCacheValid has answered: the entry is read when valid
CacheRead(fs1, seen, valid, cached, cacheTimeout, params, t) ==
  IF valid /\ cached.ok
  THEN [fs |-> fs1, lookup |-> [seen EXCEPT !.valid = TRUE, !.read = TRUE], hit |-> TRUE,
        threw |-> FALSE, response |-> HitResponse(cached, cacheTimeout, params, t)]
  ELSE [fs |-> fs1, lookup |-> [seen EXCEPT !.valid = valid, !.read = valid], hit |-> FALSE,
        threw |-> FALSE, response |-> NoResponse]

\* The cache check of processRequest: [fs, lookup, hit, threw, response].  The
\* mkdirSync of ensureCacheDir and the statSync of isCacheValid are outside every
\* try: their throw leaves the handler.
CacheCheckPaths(fs, service, cacheFilePaths, cacheTimeout, params, t, io) ==
  IF \/ io = "mkdir" /\ service \notin fs.dirs
     \/ /\ io = "stat"
        /\ Exists(fs, cacheFilePaths.content) /\ Exists(fs, cacheFilePaths.metadata)
  THEN [fs |-> fs, lookup |-> Seen(fs, cacheFilePaths, t, io), hit |-> FALSE,
        threw |-> TRUE, response |-> NoResponse]
  ELSE CacheRead(ensureCacheDir(fs, service), Seen(fs, cacheFilePaths, t, io),
                 isCacheValid(fs, cacheFilePaths, cacheTimeout, t),
                 readCacheFile(fs, cacheFilePaths, io), cacheTimeout, params, t)

CacheCheck(fs, service, targetUrl, params, t, io) ==
  CacheCheckPaths(fs, service,
                  getCacheFilePaths(service, generateCacheKey(targetUrl, params)),
                  CACHE_TIMEOUTS[service], params, t, io)

\* A cache check whose hit renews the metadata file of the entry
AfterCacheCheckTouching(base, c) ==
  IF c.threw
  THEN [req |-> [base EXCEPT !.pc = "threw", !.stage = "cache", !.lookup = c.lookup],
        fs |-> c.fs]
  ELSE IF c.hit
  THEN [req |-> [base EXCEPT !.pc = "done", !.stage = "cache", !.lookup = c.lookup,
                             !.response = c.response],
        fs |-> [c.fs EXCEPT
                  !.files[getCacheFilePaths(base.service,
                            generateCacheKey(base.targetUrl, base.params)).metadata].mtime =
                    @ + 1]]
  ELSE [req |-> [base EXCEPT !.pc = "fetching", !.stage = "fetch", !.lookup = c.lookup,
                             !.fetches = 1],
        fs |-> c.fs]

\* processRequest after the cache check
AfterCacheCheck(base, c) ==
  IF c.threw
  THEN [req |-> [base EXCEPT !.pc = "threw", !.stage = "cache", !.lookup = c.lookup],
        fs |-> c.fs]
  ELSE IF c.hit
  THEN [req |-> [base EXCEPT !.pc = "done", !.stage = "cache", !.lookup = c.lookup,
                             !.response = c.response],
        fs |-> c.fs]
  ELSE [req |-> [base EXCEPT !.pc = "fetching", !.stage = "fetch", !.lookup = c.lookup,
                             !.fetches = 1],
        fs |-> c.fs]

\* processRequest after the build of the target URL
AfterPreFetch(base, response, fs, t, io) ==
  IF base.stage # "build"
  THEN [req |-> [base EXCEPT !.pc = "done", !.response = response], fs |-> fs]
  ELSE IF CACHE_TIMEOUTS[base.service] > 0
  THEN AfterCacheCheck(base, CacheCheck(fs, base.service, base.targetUrl, base.params, t, io))
  ELSE [req |-> [base EXCEPT !.pc = "fetching", !.stage = "fetch", !.fetches = 1],
        fs |-> fs]

BaseReq(service, path, segments, pre) ==
  [IdleReq EXCEPT !.service = service, !.path = path, !.segments = segments,
                  !.params = pre.params, !.stage = pre.stage, !.targetUrl = pre.targetUrl]

StartWith(service, path, segments, pre, fs, t, io) ==
  AfterPreFetch(BaseReq(service, path, segments, pre), pre.response, fs, t, io)

\* processRequest from its start to its first await: [req, fs]
StartRequest(service, path, segments, fs, t, io) ==
  StartWith(service, path, segments, PreFetch(service, segments), fs, t, io)

\* A catch that answers with the message of the error it caught
FetchFailedWithMessage(error) == JsonError(500, error, null)

\* catch (error): res.status(500).json({ error: "Failed to fetch target" })
FetchFailed(error) == JsonError(500, "Failed to fetch target", null)

\* An upstream failure answered as a bad gateway, whatever the upstream status
UpstreamFailedAsBadGateway(status) == JsonError(502, "Upstream fetch failed", null)

\* res.status(response.status).json({ error: "Upstream fetch failed" })
UpstreamFailed(status) == JsonError(status, "Upstream fetch failed", null)

\* The store of every successful response, whatever its status
ShouldStoreAnySuccess(useCache, status) == useCache /\ status >= 200 /\ status <= 299

\* if (useCache && response.status === 200)
ShouldStore(useCache, status) == useCache /\ status = 200

\* processRequest from the return of fetch to its end: [req, fs].  upstream is
\* [kind, status, body, contentType]; kind "error" is a fetch that throws.
FinishRequest(r, upstream, fs, t, io) ==
  LET service == r.service
      cacheTimeout == CACHE_TIMEOUTS[service]
      useCache == cacheTimeout > 0
      ok == upstream.status >= 200 /\ upstream.status <= 299
      contentType == IF upstream.contentType # "" THEN upstream.contentType
                     ELSE "application/octet-stream"
      cacheFilePaths == getCacheFilePaths(service, generateCacheKey(r.targetUrl, r.params))
      mkdirThrows == io = "mkdir" /\ service \notin fs.dirs
      back == [r EXCEPT !.pc = "done", !.upstream = upstream.kind,
                        !.upstreamStatus = upstream.status]
      failed == [back EXCEPT !.response = FetchFailed(IF upstream.kind = "error"
                                                      THEN upstream.body ELSE "EACCES")] IN
  IF upstream.kind = "error"
  THEN [req |-> failed, fs |-> fs]
  ELSE IF ~ok
  THEN [req |-> [back EXCEPT !.response = UpstreamFailed(upstream.status)], fs |-> fs]
  ELSE IF ShouldStore(useCache, upstream.status)
  THEN IF mkdirThrows
       THEN [req |-> [failed EXCEPT !.stage = "store", !.storeIo = io], fs |-> fs]
       ELSE [req |-> [back EXCEPT !.stage = "store", !.storeIo = io,
                                  !.response = FetchedResponse(upstream.body, contentType,
                                                               useCache, cacheTimeout,
                                                               r.params, t)],
             fs |-> writeCacheFile(ensureCacheDir(fs, service), cacheFilePaths,
                                   upstream.body, contentType, t, io)]
  ELSE [req |-> [back EXCEPT !.stage = "respond",
                             !.response = FetchedResponse(upstream.body, contentType,
                                                          useCache, cacheTimeout, r.params, t)],
        fs |-> fs]

-----------------------------------------------------------------------------
(* The expiry sweep and the cache-management endpoints *)

\* The keys of the .cache files of a service directory
CacheKeysOf(fs, service) ==
  {f[2] : f \in {g \in DOMAIN fs.files : g[1] = service /\ g[3] = ".cache"}}

\* A removal that unlinks the content files and leaves the metadata files
RemoveContentOnly(fs, service, keys) ==
  [fs EXCEPT !.files =
     [q \in {g \in DOMAIN @ : ~(g[1] = service /\ g[2] \in keys /\ g[3] = ".cache")} |-> @[q]]]

\* A removal that unlinks the files of the keys in every directory
RemoveAnywhere(fs, service, keys) ==
  [fs EXCEPT !.files = [q \in {g \in DOMAIN @ : g[2] \notin keys} |-> @[q]]]

\* The removal of the content and metadata files of the given keys
RemoveEntries(fs, service, keys) ==
  [fs EXCEPT !.files =
     [q \in {g \in DOMAIN @ : ~(g[1] = service /\ g[2] \in keys)} |-> @[q]]]

\* The services cleanExpiredCacheFiles does not skip
SweptServices(fs) ==
  {sv \in fs.dirs : sv \in DOMAIN CACHE_TIMEOUTS /\ CACHE_TIMEOUTS[sv] > 0}

\* A sweep that takes every entry as expired
AllKeysExpired(fs, service, t) == CacheKeysOf(fs, service)

\* The entries the sweep finds not valid
ExpiredKeys(fs, service, t) ==
  {k \in CacheKeysOf(fs, service) :
     ~isCacheValid(fs, getCacheFilePaths(service, k), CACHE_TIMEOUTS[service], t)}

\* A file operation of the sweep that throws: the readdirSync of the directory
\* of service, or an unlinkSync of the entry key, reached after the entries
\* before have been deleted (readdirSync fixes no order)
NoFault == [service |-> "", op |-> "none", key |-> null, before |-> {}]

\* The fault is met: the sweep of the service comes to the throwing call
FaultMet(fs, sv, expired, fault) ==
  /\ fault.service = sv
  /\ \/ fault.op = "readdir"
     \/ fault.op = "unlinkContent" /\ fault.key \in expired
     \/ /\ fault.op = "unlinkMetadata" /\ fault.key \in expired
        /\ Exists(fs, getCacheFilePaths(sv, fault.key).metadata)

\* The directory after the throw: the entries before are gone, and the content
\* file of the entry whose metadata file could not be unlinked
AfterFault(fs, sv, done, fault) ==
  IF fault.op = "unlinkMetadata"
  THEN [fs EXCEPT !.files =
          [q \in {g \in DOMAIN @ : ~(g[1] = sv /\ (g[2] \in done \/
                                       g = getCacheFilePaths(sv, fault.key).content))} |-> @[q]]]
  ELSE RemoveEntries(fs, sv, done)

\* A sweep of one service that goes on to the next service after a throw
SweepServiceUncounted(fs, sv, expired, fault) ==
  IF FaultMet(fs, sv, expired, fault)
  THEN [fs |-> IF fault.op = "readdir" THEN fs
               ELSE AfterFault(fs, sv, (expired \cap fault.before) \ {fault.key}, fault),
        cleaned |-> 0]
  ELSE [fs |-> RemoveEntries(fs, sv, expired), cleaned |-> Cardinality(expired)]

\* The body of the loop over the services: the try / catch of one service
SweepService(fs, sv, expired, fault) ==
  IF FaultMet(fs, sv, expired, fault)
  THEN IF fault.op = "readdir" THEN [fs |-> fs, cleaned |-> 0]
       ELSE [fs |-> AfterFault(fs, sv, (expired \cap fault.before) \ {fault.key}, fault),
             cleaned |-> Cardinality((expired \cap fault.before) \ {fault.key})]
  ELSE [fs |-> RemoveEntries(fs, sv, expired), cleaned |-> Cardinality(expired)]

\* cleanExpiredCacheFiles: [fs, totalCleaned]
RECURSIVE SweepServices(_, _, _, _, _)
SweepServices(fs, services, t, totalCleaned, fault) ==
  IF services = {} THEN [fs |-> fs, totalCleaned |-> totalCleaned]
  ELSE LET sv == CHOOSE x \in services : TRUE
           swept == SweepService(fs, sv, ExpiredKeys(fs, sv, t), fault) IN
       SweepServices(swept.fs, services \ {sv}, t, totalCleaned + swept.cleaned, fault)

cleanExpiredCacheFiles(fs, t, fault) == SweepServices(fs, SweptServices(fs), t, 0, fault)

NoMgmt ==
  [endpoint |-> "", service |-> "", auth |-> "", status |-> 0, error |-> "", count |-> 0,
   fault |-> NoFault]

\* A token check that looks at the form of the header and not at the key
AuthErrorKeyUnchecked(auth) ==
  IF auth \in {"missing", "notBearer"} THEN "Missing or invalid Authorization header" ELSE ""

\* The bearer-token check of both endpoints: "" when the request is let through
AuthError(auth) ==
  IF auth \in {"missing", "notBearer"} THEN "Missing or invalid Authorization header"
  ELSE IF auth = "wrongKey" THEN "Invalid API key"
  ELSE ""

-----------------------------------------------------------------------------
(* The bounds of the model and its inputs *)

MaxTime == 2
MaxSegs == 4

\* The timers of the scheduler the clock is let run to
MainSweeps == 1

Slots == {"r1", "r2"}

\* Sequences over S of length at most n
RECURSIVE SeqsUpTo(_, _)
SeqsUpTo(S, n) ==
  IF n = 0 THEN {<<>>}
  ELSE LET shorter == SeqsUpTo(S, n - 1) IN
       shorter \cup {Append(q, x) : q \in {z \in shorter : Len(z) = n - 1}, x \in S}

PathsOver(S, n) == {Join(segs, sSlash) : segs \in SeqsUpTo(S, n)}

sP == <<"p">>
sS == <<"s">>
sF == <<"f">>
sG == <<"g">>
sPLast == sP \o sLast
sSpaced == <<"d", " ", "e">>

tplP == <<"h", ":", "/", "{", "p", "}">>
tplSP == <<"h", ":", "/", "{", "s", "}", "/", "{", "p", "}">>
tpl1 == <<"h", ":", "/", "{", "1", "}">>
tpl12 == <<"h", ":", "/", "{", "1", "}", "/", "{", "2", "}">>
tpl13 == <<"h", ":", "/", "{", "1", "}", "/", "{", "3", "}">>
sCache2 == sCacheFlag \o <<"2">>
sCache1 == sCacheFlag \o <<"1">>

\* README: Pattern https://api.example.com/{service}/{path}
tplApiExample ==
  <<"h","t","t","p","s",":","/","/","a","p","i",".","e","x","a","m","p","l","e",".",
    "c","o","m","/","{","s","e","r","v","i","c","e","}","/","{","p","a","t","h","}">>

\* README: Proxy URL /service/files/path-last/docs/api/v1/readme.md
pathApiExample ==
  <<"s","e","r","v","i","c","e","/","f","i","l","e","s","/","p","a","t","h","-","l","a",
    "s","t","/","d","o","c","s","/","a","p","i","/","v","1","/","r","e","a","d","m","e",
    ".","m","d">>

urlApiExample ==
  <<"h","t","t","p","s",":","/","/","a","p","i",".","e","x","a","m","p","l","e",".",
    "c","o","m","/","f","i","l","e","s","/","d","o","c","s","/","a","p","i","/","v","1",
    "/","r","e","a","d","m","e",".","m","d">>

\* README: Proxy URL /files/docs/api/v1/readme.md for https://api.example.com/{1}/{2}
tplApiPositional ==
  <<"h","t","t","p","s",":","/","/","a","p","i",".","e","x","a","m","p","l","e",".",
    "c","o","m","/","{","1","}","/","{","2","}">>

pathApiPositional ==
  <<"f","i","l","e","s","/","d","o","c","s","/","a","p","i","/","v","1","/","r","e","a",
    "d","m","e",".","m","d">>

\* CACHE_CLEANUP_INTERVAL when the environment does not set it, in seconds
DefaultCleanupInterval == 1800

\* The delay of the first cleanup after the start, in seconds
InitialCleanupDelay == 300

Config(positional, multi, patterns, allowed, apiKey) ==
  [positional |-> positional, multi |-> multi, patterns |-> patterns,
   allowed |-> allowed, apiKey |-> apiKey, cleanupInterval |-> DefaultCleanupInterval]

NoRules == <<>>
RulesS == << (sS :> <<"f", "*">>) >>
RulesAndOr == << (sS :> <<"*">>) @@ (sP :> <<"f", "*">>), (sP :> sG) >>
Rules1 == << (<<"1">> :> <<"f", "*">>) >>

\* The configurations of the resolution specification: no route is cached
ResolveConfigs ==
  { Config(FALSE, FALSE, ("DEFAULT" :> tplP), NoRules, null),
    Config(FALSE, TRUE, ("a" :> tplSP), RulesAndOr, null),
    Config(FALSE, TRUE, ("a" :> tplP), RulesAndOr, null),
    Config(FALSE, FALSE, ("DEFAULT" :> tplApiExample), NoRules, null),
    Config(TRUE, TRUE, ("a" :> tpl12), Rules1, null),
    Config(TRUE, TRUE, ("a" :> tpl13), NoRules, null),
    Config(TRUE, FALSE, ("DEFAULT" :> tpl1), NoRules, null),
    Config(TRUE, FALSE, ("DEFAULT" :> tplApiPositional), NoRules, null) }

\* The configurations of the full specification: cached and uncached routes
MainConfigs ==
  { Config(FALSE, FALSE, ("DEFAULT" :> tplP \o sCache2), RulesS, <<"k">>),
    Config(FALSE, TRUE, ("a" :> tplP \o sCache2) @@ ("b" :> tplP \o sCache1),
           NoRules, <<"k">>),
    Config(TRUE, TRUE, ("a" :> tpl1 \o sCache1) @@ ("b" :> tpl1), NoRules, null) }

NamedPool == {sP, sS, sPLast, sF, sSpaced, <<>>}
PositionalPool == {sF, sSpaced, <<>>}

\* The request paths of the resolution specification
NamedPaths == PathsOver(NamedPool, MaxSegs) \cup {pathApiExample}
PositionalPaths == PathsOver(PositionalPool, MaxSegs) \cup {pathApiPositional}

\* The request paths of the full specification
MainNamedSingle ==
  {Join(<<sP, sF, sS, sF>>, sSlash), Join(<<sP, sF, sS, sG>>, sSlash),
   Join(<<sS, sF>>, sSlash), sP, null}
MainNamedMulti == {Join(<<sP, sF>>, sSlash), Join(<<sS, sF>>, sSlash)}
MainPositional == {sF, null}

MainPaths ==
  IF USE_POSITIONAL_PARAMS THEN MainPositional
  ELSE IF URL_PATTERNS_ENV THEN MainNamedMulti ELSE MainNamedSingle

RequestedServices == {"a", "b", "zz", "constructor"}
InvalidatedServices == IF URL_PATTERNS_ENV THEN RequestedServices ELSE {"DEFAULT", "zz"}

Upstreams ==
  { [kind |-> "ok", status |-> 200, body |-> "b1", contentType |-> "text/plain"],
    [kind |-> "ok", status |-> 200, body |-> "b2", contentType |-> ""],
    [kind |-> "ok", status |-> 201, body |-> "b1", contentType |-> "text/plain"],
    [kind |-> "notOk", status |-> 404, body |-> "e1", contentType |-> "text/html"],
    [kind |-> "notOk", status |-> 503, body |-> "e1", contentType |-> ""],
    [kind |-> "error", status |-> 0, body |-> "ECONNREFUSED", contentType |-> ""],
    [kind |-> "error", status |-> 0, body |-> "ETIMEDOUT", contentType |-> ""] }

\* The file operations of a request: all succeed ("ok"), the read of the entry
\* throws ("read"), the write of the metadata or of the content throws
LookupIo == {"ok", "read"}
StoreIo == {"ok", "writeMeta", "writeContent"}
Auths == {"missing", "notBearer", "wrongKey", "rightKey"}

-----------------------------------------------------------------------------
(* The state machine *)

\* The scheduler started whatever the routes
cachingAlways(timeouts) == TRUE

\* app.listen: Object.values(CACHE_TIMEOUTS).some(timeout => timeout > 0)
cachingEnabled(timeouts) == \E sv \in DOMAIN timeouts : timeouts[sv] > 0

\* process.env of a configuration: the entries NAME=template joined with ","
RECURSIVE EntriesOf(_, _)
EntriesOf(patterns, names) ==
  IF names = {} THEN <<>>
  ELSE LET n == CHOOSE x \in names : TRUE IN
       <<(<<n>> \o sEq \o patterns[n])>> \o EntriesOf(patterns, names \ {n})

EnvOf(c) ==
  [URL_PATTERNS |-> IF c.multi THEN Join(EntriesOf(c.patterns, DOMAIN c.patterns), sComma)
                    ELSE null,
   URL_PATTERN |-> IF c.multi THEN null ELSE c.patterns["DEFAULT"],
   USE_POSITIONAL_PARAMS |-> c.positional]

\* The state once app.listen has been called under the configuration c
Setup(c) ==
  /\ env = EnvOf(c)
  /\ process = "listening"
  /\ USE_POSITIONAL_PARAMS = c.positional
  /\ URL_PATTERNS_ENV = c.multi
  /\ URL_PATTERNS = [sv \in DOMAIN c.patterns |-> removeCacheFlag(c.patterns[sv])]
  /\ CACHE_TIMEOUTS = [sv \in DOMAIN c.patterns |-> parseCacheTimeout(c.patterns[sv])]
  /\ ALLOWED = CompileAllowed(c.allowed)
  /\ CACHE_API_KEY = c.apiKey
  /\ CACHE_CLEANUP_INTERVAL = c.cleanupInterval
  \* app.listen: the scheduler starts when some route is cached
  /\ sweepTimer = IF cachingEnabled([sv \in DOMAIN c.patterns |->
                                       parseCacheTimeout(c.patterns[sv])])
                  THEN "initial" ELSE "off"
  /\ sweepDue = InitialCleanupDelay

Quiet ==
  /\ now = 0
  /\ req = [r \in Slots |-> IdleReq]
  /\ sent = IdleReq
  /\ mgmt = NoMgmt

MatcherIdle == mPattern = null /\ mValue = null /\ mResult = "none"

AnyRequest == inService = "" /\ inPath = null

Init ==
  /\ \E c \in MainConfigs : Setup(c)
  /\ cacheFiles = EmptyCache /\ Quiet /\ AnyRequest /\ MatcherIdle

\* One configuration and one request, drawn over every path of the pools
InitResolve ==
  /\ \E c \in ResolveConfigs :
       /\ Setup(c)
       /\ inService \in (IF c.multi THEN RequestedServices ELSE {"DEFAULT"})
       /\ inPath \in (IF c.positional THEN PositionalPaths ELSE NamedPaths)
  /\ cacheFiles = EmptyCache /\ Quiet /\ MatcherIdle

\* A step of the handler of request r.  A handler that has ended (a response sent,
\* or a throw that left it) frees the slot and is recorded in sent.
Apply(r, res) ==
  /\ req' = [req EXCEPT ![r] = IF res.req.pc = "fetching" THEN res.req ELSE IdleReq]
  /\ sent' = IF res.req.pc = "fetching" THEN IdleReq ELSE res.req
  /\ cacheFiles' = res.fs

\* app.get("/*"): the single-pattern route
GetSingle(r, path, io) ==
  /\ process = "listening"
  /\ ~URL_PATTERNS_ENV
  /\ req[r].pc = "idle"
  /\ Apply(r, IF path = null
              THEN [req |-> [IdleReq EXCEPT !.pc = "done", !.path = path, !.stage = "route",
                                            !.response = JsonError(400, "Path required", null)],
                    fs |-> cacheFiles]
              ELSE StartRequest("DEFAULT", path, FilterNonEmpty(Split(path, "/")),
                                cacheFiles, now, io))
  /\ mgmt' = NoMgmt
  /\ UNCHANGED <<configVars, now, sweepTimer, sweepDue, matcherVars>>

\* The names every object inherits from Object.prototype: URL_PATTERNS is an
\* object literal, and URL_PATTERNS[name] is a function or an object for them
ObjectPrototypeKeys ==
  {"constructor", "__proto__", "hasOwnProperty", "isPrototypeOf", "propertyIsEnumerable",
   "toLocaleString", "toString", "valueOf", "__defineGetter__", "__defineSetter__",
   "__lookupGetter__", "__lookupSetter__"}

\* URL_PATTERNS[service] is truthy
HasPattern(patterns, service) ==
  service \in DOMAIN patterns \/ service \in ObjectPrototypeKeys

\* The multi-pattern route for a service name that went through the check of
\* URL_PATTERNS[service]: for an inherited name, URL_PATTERNS[service].matchAll is
\* no function and the first statement of the resolution throws
StartMulti(service, path, fs, t, io) ==
  IF service \in DOMAIN URL_PATTERNS
  THEN StartRequest(service, path, Split(path, "/"), fs, t, io)
  ELSE [req |-> [IdleReq EXCEPT !.pc = "threw", !.service = service, !.path = path,
                                !.segments = Split(path, "/"), !.stage = "route"],
        fs |-> fs]

\* app.get("/service/:service/*"): the multi-pattern route
GetMulti(r, service, path, io) ==
  /\ process = "listening"
  /\ URL_PATTERNS_ENV
  /\ req[r].pc = "idle"
  /\ Apply(r, IF ~HasPattern(URL_PATTERNS, service)
              THEN [req |-> [IdleReq EXCEPT !.pc = "done", !.service = service,
                                            !.path = path, !.stage = "route",
                                            !.response = JsonError(400, "Invalid service", null)],
                    fs |-> cacheFiles]
              ELSE StartMulti(service, path, cacheFiles, now, io))
  /\ mgmt' = NoMgmt
  /\ UNCHANGED <<configVars, now, sweepTimer, sweepDue, matcherVars>>

\* The upstream fetch of request r returns or throws
FetchReturn(r, upstream, io) ==
  /\ req[r].pc = "fetching"
  /\ Apply(r, FinishRequest(req[r], upstream, cacheFiles, now, io))
  /\ mgmt' = NoMgmt
  /\ UNCHANGED <<configVars, now, sweepTimer, sweepDue, matcherVars>>

\* A timer of the scheduler is due: its callback runs before the clock goes on
TimerDue == sweepTimer # "off" /\ now >= sweepDue

\* A second passes
Tick ==
  /\ ~TimerDue
  /\ now < MaxTime
  /\ now' = now + 1
  /\ sent' = IdleReq
  /\ mgmt' = NoMgmt
  /\ UNCHANGED <<configVars, cacheFiles, req, sweepTimer, sweepDue, matcherVars>>

\* The time to the next timer of the scheduler passes, for its first sweeps
Idle(sweeps) ==
  /\ sweepTimer # "off"
  /\ now < sweepDue
  /\ sweepDue < InitialCleanupDelay + sweeps * CACHE_CLEANUP_INTERVAL
  /\ now' = sweepDue
  /\ sent' = IdleReq
  /\ mgmt' = NoMgmt
  /\ UNCHANGED <<configVars, cacheFiles, req, sweepTimer, sweepDue, matcherVars>>

Swept(endpoint, auth, res, fault) ==
  /\ mgmt' = [endpoint |-> endpoint, service |-> "", auth |-> auth,
              status |-> IF endpoint = "timer" THEN 0 ELSE 200, error |-> "",
              count |-> res.totalCleaned, fault |-> fault]
  /\ cacheFiles' = res.fs

\* The setTimeout / setInterval callback of startCacheCleanupScheduler; the
\* first one arms the interval timer.  mgmt keeps the count the callback drops.
TimerSweep(fault) ==
  /\ TimerDue
  /\ Swept("timer", "", cleanExpiredCacheFiles(cacheFiles, now, fault), fault)
  /\ sweepTimer' = "interval"
  /\ sweepDue' = now + CACHE_CLEANUP_INTERVAL
  /\ sent' = IdleReq
  /\ UNCHANGED <<configVars, now, req, matcherVars>>

\* Management endpoints registered whatever the configuration
ManagementAlways(apiKey) == TRUE

\* if (CACHE_API_KEY): the management endpoints are registered
ManagementEnabled(apiKey) == apiKey # null

Refusal(endpoint, service, auth, status, error) ==
  [endpoint |-> endpoint, service |-> service, auth |-> auth, status |-> status,
   error |-> error, count |-> 0, fault |-> NoFault]

\* A DELETE or POST that no registered route handles: no handler of the program
\* runs, and the framework answers 404
Unrouted(service, auth) == Refusal("unrouted", service, auth, 404, "")

\* The try block of the invalidation: [fs, status, count].  A throw of readdirSync
\* or of an unlinkSync leaves the loop, and the catch answers 500
InvalidateRoute(fs, service, fault) ==
  IF service \notin fs.dirs THEN [fs |-> fs, status |-> 200, count |-> 0]
  ELSE IF FaultMet(fs, service, CacheKeysOf(fs, service), fault)
  THEN [fs |-> IF fault.op = "readdir" THEN fs
               ELSE AfterFault(fs, service,
                               (CacheKeysOf(fs, service) \cap fault.before) \ {fault.key},
                               fault),
        status |-> 500, count |-> 0]
  ELSE [fs |-> RemoveEntries(fs, service, CacheKeysOf(fs, service)), status |-> 200,
        count |-> Cardinality(CacheKeysOf(fs, service))]

\* app.delete('/invalidate-cache/:service')
InvalidateCache(service, auth, fault) ==
  /\ process = "listening"
  /\ IF ~ManagementEnabled(CACHE_API_KEY)
     THEN /\ mgmt' = Unrouted(service, auth)
          /\ cacheFiles' = cacheFiles
     ELSE IF AuthError(auth) # ""
     THEN /\ mgmt' = Refusal("invalidate", service, auth, 401, AuthError(auth))
          /\ cacheFiles' = cacheFiles
     ELSE IF ~HasPattern(URL_PATTERNS, service)
     THEN /\ mgmt' = Refusal("invalidate", service, auth, 400, "Invalid service")
          /\ cacheFiles' = cacheFiles
     ELSE /\ mgmt' = [endpoint |-> "invalidate", service |-> service, auth |-> auth,
                      status |-> InvalidateRoute(cacheFiles, service, fault).status,
                      error |-> IF InvalidateRoute(cacheFiles, service, fault).status = 500
                                THEN "Failed to invalidate cache" ELSE "",
                      count |-> InvalidateRoute(cacheFiles, service, fault).count,
                      fault |-> fault]
          /\ cacheFiles' = InvalidateRoute(cacheFiles, service, fault).fs
  /\ sent' = IdleReq
  /\ UNCHANGED <<configVars, now, req, sweepTimer, sweepDue, matcherVars>>

\* app.post('/cleanup-cache')
CleanupCache(auth, fault) ==
  /\ process = "listening"
  /\ IF ~ManagementEnabled(CACHE_API_KEY)
     THEN /\ mgmt' = Unrouted("", auth)
          /\ cacheFiles' = cacheFiles
     ELSE IF AuthError(auth) # ""
     THEN /\ mgmt' = Refusal("cleanup", "", auth, 401, AuthError(auth))
          /\ cacheFiles' = cacheFiles
     ELSE Swept("cleanup", auth, cleanExpiredCacheFiles(cacheFiles, now, fault), fault)
  /\ sent' = IdleReq
  /\ UNCHANGED <<configVars, now, req, sweepTimer, sweepDue, matcherVars>>

\* The first seconds of the process, before the first timer of the scheduler:
\* requests overlap (two slots); every file operation succeeds
Next ==
  \/ \E r \in Slots, path \in MainPaths : GetSingle(r, path, "ok")
  \/ \E r \in Slots, service \in RequestedServices, path \in MainPaths :
       GetMulti(r, service, path, "ok")
  \/ \E r \in Slots, upstream \in Upstreams : FetchReturn(r, upstream, "ok")
  \/ Tick
  \/ \E service \in InvalidatedServices, auth \in Auths : InvalidateCache(service, auth, NoFault)
  \/ \E auth \in Auths : CleanupCache(auth, NoFault)

Spec == Init /\ [][Next]_vars

\* The request of InitResolve, handled alone
NextResolve ==
  \/ GetSingle("r1", inPath, "ok")
  \/ GetMulti("r1", inService, inPath, "ok")
  \/ \E upstream \in Upstreams : FetchReturn("r1", upstream, "ok")

SpecResolve == InitResolve /\ [][NextResolve]_vars

-----------------------------------------------------------------------------
(* The cache directory as a volume that outlives the process: the server     *)
(* starts on files of an earlier run, whole or partial, and the reads and    *)
(* writes of a request may throw.                                            *)

StrayUrl == <<"h", ":", "/", "f">>
StrayPaths == getCacheFilePaths("DEFAULT", generateCacheKey(StrayUrl, <<>>))
StrayContent == [data |-> "b0", mtime |-> 0]
StrayMetadata == [data |-> [contentType |-> "text/html", timestamp |-> 0], mtime |-> 0]

DiskStates ==
  { EmptyCache,
    [dirs |-> {"DEFAULT"}, files |-> <<>>],
    [dirs |-> {"DEFAULT"}, files |-> (StrayPaths.content :> StrayContent)],
    [dirs |-> {"DEFAULT"}, files |-> (StrayPaths.metadata :> StrayMetadata)],
    [dirs |-> {"DEFAULT"},
     files |-> (StrayPaths.content :> StrayContent) @@ (StrayPaths.metadata :> StrayMetadata)] }

DiskConfigs ==
  { Config(FALSE, FALSE, ("DEFAULT" :> tplP \o sCache2), NoRules, <<"k">>),
    Config(TRUE, FALSE, ("DEFAULT" :> tpl1 \o sCache1), NoRules, <<"k">>) }

DiskPaths == IF USE_POSITIONAL_PARAMS THEN {sF} ELSE {Join(<<sP, sF>>, sSlash)}

InitDisk ==
  /\ \E c \in DiskConfigs : Setup(c)
  /\ cacheFiles \in DiskStates
  /\ Quiet /\ AnyRequest /\ MatcherIdle

NextDisk ==
  \/ \E path \in DiskPaths, io \in LookupIo : GetSingle("r1", path, io)
  \/ \E upstream \in Upstreams, io \in StoreIo : FetchReturn("r1", upstream, io)
  \/ Tick
  \/ Idle(MainSweeps)
  \/ TimerSweep(NoFault)
  \/ \E auth \in Auths : InvalidateCache("DEFAULT", auth, NoFault)
  \/ \E auth \in Auths : CleanupCache(auth, NoFault)

SpecDisk == InitDisk /\ [][NextDisk]_vars

-----------------------------------------------------------------------------
(* Every file operation of a request may throw: the mkdirSync of the service *)
(* directory and the statSync of the metadata file as well.                  *)

FaultIo == LookupIo \cup {"mkdir", "stat"}

NextFaults ==
  \/ \E path \in DiskPaths, io \in FaultIo : GetSingle("r1", path, io)
  \/ \E upstream \in Upstreams, io \in StoreIo : FetchReturn("r1", upstream, io)
  \/ Tick
  \/ \E auth \in Auths : InvalidateCache("DEFAULT", auth, NoFault)
  \/ \E auth \in Auths : CleanupCache(auth, NoFault)

SpecFaults == InitDisk /\ [][NextFaults]_vars

-----------------------------------------------------------------------------
(* The sweep and the invalidation over a cache directory that holds entries   *)
(* of two cached routes (a, b), of a route that is not cached (c) and of a     *)
(* directory that is no route (zz), where a file operation of the sweep may    *)
(* throw.  The sweep is run through POST /cleanup-cache, in the seconds        *)
(* before the first timer.                                                     *)

StrayUrlG == <<"h", ":", "/", "g">>

\* The files of one entry: both, the content file only, the metadata file only
EntryFiles(service, url, kind) ==
  IF kind = "both"
  THEN (getCacheFilePaths(service, generateCacheKey(url, <<>>)).content :> StrayContent)
       @@ (getCacheFilePaths(service, generateCacheKey(url, <<>>)).metadata :> StrayMetadata)
  ELSE IF kind = "content"
  THEN (getCacheFilePaths(service, generateCacheKey(url, <<>>)).content :> StrayContent)
  ELSE IF kind = "metadata"
  THEN (getCacheFilePaths(service, generateCacheKey(url, <<>>)).metadata :> StrayMetadata)
  ELSE <<>>

DiskOf(files) == [dirs |-> {f[1] : f \in DOMAIN files}, files |-> files]

EntryKinds == {"none", "both", "content", "metadata"}
WholeKinds == {"none", "both"}

SweepDisks ==
  { DiskOf(EntryFiles("a", StrayUrl, af) @@ EntryFiles("a", StrayUrlG, ag)
           @@ EntryFiles("b", StrayUrl, bf) @@ EntryFiles("c", StrayUrl, "both")
           @@ EntryFiles("zz", StrayUrl, "both")) :
      af \in EntryKinds, ag \in WholeKinds, bf \in WholeKinds }

SweepConfig ==
  Config(FALSE, TRUE,
         ("a" :> tplP \o sCache1) @@ ("b" :> tplP \o sCache2) @@ ("c" :> tplP),
         NoRules, <<"k">>)

SweepRoutes == {"a", "b", "c"}
SweepUpstreams == {u \in Upstreams : u.status \in {200, 404} /\ u.body # "b2"}
SweepAuths == {"wrongKey", "rightKey"}
SweepDirs == {"a", "b", "c", "zz"}

\* The throws of one run of the sweep: none, or one in the directory of a
\* cached route
UnlinkFaults(sv, keys) ==
  UNION {{[service |-> sv, op |-> op, key |-> k, before |-> B] :
            op \in {"unlinkContent", "unlinkMetadata"}, B \in SUBSET (keys \ {k})} :
          k \in keys}

SweepFaults(fs) ==
  {NoFault}
  \cup {[service |-> sv, op |-> "readdir", key |-> null, before |-> {}] :
          sv \in SweptServices(fs)}
  \cup UNION {UnlinkFaults(sv, CacheKeysOf(fs, sv)) : sv \in SweptServices(fs)}

InitSweep ==
  /\ Setup(SweepConfig)
  /\ cacheFiles \in SweepDisks
  /\ Quiet /\ AnyRequest /\ MatcherIdle

NextSweep ==
  \/ \E service \in SweepRoutes : GetMulti("r1", service, Join(<<sP, sF>>, sSlash), "ok")
  \/ \E upstream \in SweepUpstreams : FetchReturn("r1", upstream, "ok")
  \/ Tick
  \/ \E auth \in SweepAuths, fault \in SweepFaults(cacheFiles) : CleanupCache(auth, fault)
  \/ \E service \in SweepDirs, auth \in SweepAuths : InvalidateCache(service, auth, NoFault)

SpecSweep == InitSweep /\ [][NextSweep]_vars

-----------------------------------------------------------------------------
(* The cache directory as the program alone makes it: empty at the start, then *)
(* stores, sweeps and invalidations of which any write or unlink may throw     *)

PartialRoutes == {"a"}
PartialPaths == {Join(<<sP, sF>>, sSlash), Join(<<sP, sG>>, sSlash)}

\* The throws of one run of the invalidation of a route
InvalidateFaults(fs, service) ==
  {NoFault}
  \cup {[service |-> service, op |-> "readdir", key |-> null, before |-> {}]}
  \cup UnlinkFaults(service, CacheKeysOf(fs, service))

InitPartial ==
  /\ Setup(SweepConfig)
  /\ cacheFiles = EmptyCache
  /\ Quiet /\ AnyRequest /\ MatcherIdle

NextPartial ==
  \/ \E service \in PartialRoutes, path \in PartialPaths : GetMulti("r1", service, path, "ok")
  \/ \E upstream \in SweepUpstreams, io \in StoreIo : FetchReturn("r1", upstream, io)
  \/ Tick
  \/ \E fault \in SweepFaults(cacheFiles) : CleanupCache("rightKey", fault)
  \/ \E service \in PartialRoutes :
       \E fault \in InvalidateFaults(cacheFiles, service) :
         InvalidateCache(service, "rightKey", fault)

SpecPartial == InitPartial /\ [][NextPartial]_vars

-----------------------------------------------------------------------------
(* Two routes of one template, and two paths of one target URL: /p/f, and      *)
(* /p/f/s/g whose parameter s the template does not use.  The requests of      *)
(* slot r2 carry s, and their upstream does not answer within the run, so      *)
(* that every entry on disk was stored by a request without s.                 *)

KeysConfig ==
  Config(FALSE, TRUE, ("a" :> tplP \o sCache2) @@ ("b" :> tplP \o sCache2), NoRules, null)

KeysRoutes == {"a", "b"}
pathPF == Join(<<sP, sF>>, sSlash)
pathPFSG == Join(<<sP, sF, sS, sG>>, sSlash)
KeysUpstreams == {u \in Upstreams : u.status = 200}

InitKeys ==
  /\ Setup(KeysConfig)
  /\ cacheFiles = EmptyCache
  /\ Quiet /\ AnyRequest /\ MatcherIdle

NextKeys ==
  \/ \E service \in KeysRoutes : GetMulti("r1", service, pathPF, "ok")
  \/ GetMulti("r2", "a", pathPFSG, "ok")
  \/ \E upstream \in KeysUpstreams : FetchReturn("r1", upstream, "ok")
  \/ Tick

SpecKeys == InitKeys /\ [][NextKeys]_vars

-----------------------------------------------------------------------------
(* The cleanup scheduler over its first timers, with requests in between.    *)
(* A timer callback runs when its timer is due: the handlers are short       *)
(* synchronous turns of the event loop, so the clock does not pass a         *)
(* deadline before the callback has run.                                     *)

MaxSweeps == 3

\* README: CACHE_CLEANUP_INTERVAL="3600"
ExampleCleanupInterval == 3600

WithInterval(c, seconds) == [c EXCEPT !.cleanupInterval = seconds]

TimerConfigs ==
  { Config(FALSE, FALSE, ("DEFAULT" :> tplP \o sCache2), NoRules, null),
    WithInterval(Config(FALSE, FALSE, ("DEFAULT" :> tplP \o sCache2), NoRules, null),
                 ExampleCleanupInterval),
    Config(FALSE, FALSE, ("DEFAULT" :> tplP), NoRules, null) }

InitTimer ==
  /\ \E c \in TimerConfigs : Setup(c)
  /\ cacheFiles = EmptyCache /\ Quiet /\ AnyRequest /\ MatcherIdle

NextTimer ==
  \/ \E path \in DiskPaths : GetSingle("r1", path, "ok")
  \/ \E upstream \in Upstreams : FetchReturn("r1", upstream, "ok")
  \/ Tick
  \/ Idle(MaxSweeps)
  \/ TimerSweep(NoFault)
  \/ \E auth \in SweepAuths : InvalidateCache("DEFAULT", auth, NoFault)
  \/ \E auth \in SweepAuths : CleanupCache(auth, NoFault)

SpecTimer == InitTimer /\ [][NextTimer]_vars

\* The event loop runs a due callback, and the time to the next timer passes
SpecTimerFair ==
  SpecTimer /\ WF_vars(Idle(MaxSweeps)) /\ WF_vars(TimerSweep(NoFault))

-----------------------------------------------------------------------------
(* The matcher of one allow-list constraint, over every short pattern and value *)

MaxPattern == 3
MaxValue == 3

PatternChars == {"a", "b", ".", "*"}
ValueChars == {"a", "b"}

sFacebookStar == <<"f", "a", "c", "e", "b", "o", "o", "k", "*">>
sFacebookRn == <<"f", "a", "c", "e", "b", "o", "o", "k", "-", "r", "n">>
sMyFacebook == <<"m", "y", "f", "a", "c", "e", "b", "o", "o", "k">>

MatcherPatterns == (SeqsUpTo(PatternChars, MaxPattern) \ {<<>>}) \cup {sFacebookStar}
MatcherValues == SeqsUpTo(ValueChars, MaxValue) \cup {sFacebookRn, sMyFacebook}

InitMatcher ==
  /\ Setup(Config(FALSE, FALSE, ("DEFAULT" :> tplP), NoRules, null))
  /\ cacheFiles = EmptyCache /\ Quiet /\ AnyRequest
  /\ mPattern \in MatcherPatterns
  /\ mValue \in MatcherValues
  /\ mResult = "none"

\* regex.test(params[k]) in isAllowed, for the regex the ALLOWED parse made of mPattern
TestRule ==
  /\ mResult = "none"
  /\ mResult' = IF RegexTest(CompileRule(mPattern), mValue) THEN "match" ELSE "noMatch"
  /\ UNCHANGED <<configVars, now, cacheFiles, req, sent, sweepTimer, sweepDue, mgmt, inService,
                 inPath, mPattern, mValue>>

NextMatcher == TestRule

SpecMatcher == InitMatcher /\ [][NextMatcher]_vars

-----------------------------------------------------------------------------
(* The start of the process, from process.env to app.listen *)

tplNone == <<"h", ":", "/", "x">>
tplPLast == <<"h", ":", "/", "{">> \o sPLast \o <<"}">>

entryA == <<"a">> \o sEq \o tplP
entryA1 == <<"a">> \o sEq \o tpl1 \o sCache1

StartupPatternsEnvs ==
  { null,
    entryA1,
    Join(<<entryA, <<"b">>>>, sComma),
    Join(<<entryA, sEq \o tplP>>, sComma),
    Join(<<entryA, <<"b">> \o sEq>>, sComma),
    Join(<<<<"a">> \o sEq \o tplNone, <<"b">> \o sEq \o tpl1>>, sComma) }

StartupPatternEnvs == {null, tplP \o sCache2, tpl1, tplNone, tplPLast}

StartupEnvs ==
  [URL_PATTERNS : StartupPatternsEnvs, URL_PATTERN : StartupPatternEnvs,
   USE_POSITIONAL_PARAMS : BOOLEAN]

StartupServices == {"a", "b"}
StartupPaths == {sF, Join(<<sP, sF>>, sSlash), Join(<<sPLast, sF, sG>>, sSlash)}

\* The module is loaded: the environment is set and nothing has been read
InitStartup ==
  /\ env \in StartupEnvs
  /\ process = "starting"
  /\ USE_POSITIONAL_PARAMS = FALSE /\ URL_PATTERNS_ENV = FALSE
  /\ URL_PATTERNS = <<>> /\ CACHE_TIMEOUTS = <<>> /\ ALLOWED = CompileAllowed(NoRules)
  /\ CACHE_API_KEY = null /\ CACHE_CLEANUP_INTERVAL = DefaultCleanupInterval
  /\ sweepTimer = "off" /\ sweepDue = InitialCleanupDelay
  /\ cacheFiles = EmptyCache /\ Quiet /\ AnyRequest /\ MatcherIdle

\* The top level of server.js: the two checks, the pattern table, app.listen
Startup ==
  /\ process = "starting"
  /\ USE_POSITIONAL_PARAMS' = env.USE_POSITIONAL_PARAMS
  /\ URL_PATTERNS_ENV' = (env.URL_PATTERNS # null)
  /\ IF StartupError(env.URL_PATTERNS, env.URL_PATTERN) # ""
     THEN /\ process' = "exited"
          /\ UNCHANGED <<URL_PATTERNS, CACHE_TIMEOUTS, sweepTimer>>
     ELSE /\ process' = "listening"
          /\ URL_PATTERNS' =
               [sv \in DOMAIN ParsePatterns(env.URL_PATTERNS, env.URL_PATTERN) |->
                  removeCacheFlag(ParsePatterns(env.URL_PATTERNS, env.URL_PATTERN)[sv])]
          /\ CACHE_TIMEOUTS' =
               [sv \in DOMAIN ParsePatterns(env.URL_PATTERNS, env.URL_PATTERN) |->
                  parseCacheTimeout(ParsePatterns(env.URL_PATTERNS, env.URL_PATTERN)[sv])]
          /\ sweepTimer' = IF cachingEnabled(CACHE_TIMEOUTS') THEN "initial" ELSE "off"
  /\ sent' = IdleReq
  /\ mgmt' = NoMgmt
  /\ UNCHANGED <<ALLOWED, CACHE_API_KEY, CACHE_CLEANUP_INTERVAL, env, now, cacheFiles, req,
                 sweepDue, matcherVars>>

NextStartup ==
  \/ Startup
  \/ \E path \in StartupPaths : GetSingle("r1", path, "ok")
  \/ \E service \in StartupServices, path \in StartupPaths : GetMulti("r1", service, path, "ok")
  \/ \E upstream \in Upstreams : FetchReturn("r1", upstream, "ok")
  \/ Tick

SpecStartup == InitStartup /\ [][NextStartup]_vars

-----------------------------------------------------------------------------
(* The properties *)

\* The requests that entered processRequest: those in flight and the one that
\* ended in the last step
Handled ==
  {R \in ({sent} \cup {req[r] : r \in Slots}) : R.pc # "idle" /\ R.stage # "route"}

PatternOf(R) == URL_PATTERNS[R.service]

\* The key positions (1-based, odd) of a NAMED segment list that hold a key
\* ending in "-last" with at least one segment after it
CaptureKeys(segments) ==
  {k \in 1..(Len(segments) - 1) : k % 2 = 1 /\ EndsWith(segments[k], sLast)}

Least(S) == CHOOSE k \in S : \A j \in S : k <= j
Greatest(S) == CHOOSE k \in S : \A j \in S : j <= k

\* C1: in NAMED and in POSITIONAL mode a substituted value that contains "/" is
\* split on "/", each piece percent-encoded, and the pieces rejoined with "/"; the
\* README's NAMED example builds https://api.example.com/files/docs/api/v1/readme.md.
C1_SlashesSurviveInBothModes ==
  \A R \in Handled :
    R.targetUrl # null =>
      /\ R.targetUrl = buildUrl(PatternOf(R), R.params, TRUE)
      /\ (PatternOf(R) = tplApiExample /\ R.path = pathApiExample)
           => R.targetUrl = urlApiExample

CapturedAt(R, k, key) ==
  /\ R.stage # "resolve"
  /\ key \in DOMAIN R.params
  /\ R.params[key] = Join(SubSeq(R.segments, k + 1, Len(R.segments)), sSlash)
  /\ DOMAIN R.params = {R.segments[j] : j \in {i \in 1..(k - 1) : i % 2 = 1}} \cup {key}

CapturedFirst(R, k) ==
  CapturedAt(R, k, SubSeq(R.segments[k], 1, Len(R.segments[k]) - 5))

\* C2: in NAMED mode, when a key ending in "-last" is met at a key position with
\* at least one segment after it, the key without the suffix gets the remaining
\* segments joined with "/", whatever their number; no later segment is taken as a
\* key, and resolution does not fail.
C2_CaptureTakesTheRest ==
  ~USE_POSITIONAL_PARAMS =>
    \A R \in Handled :
      CaptureKeys(R.segments) # {} => CapturedFirst(R, Least(CaptureKeys(R.segments)))

C2_Witness ==
  \E R \in Handled :
    /\ ~USE_POSITIONAL_PARAMS
    /\ R.segments = <<sPLast, sF, sS>>
    /\ R.params = (sP :> Join(<<sF, sS>>, sSlash))
    /\ R.fetches = 1

\* The keys of a NAMED segment list of even length, and the pairs they head
PairsOf(segments) == 1..(Len(segments) \div 2)
KeysOf(segments) == {segments[2 * j - 1] : j \in PairsOf(segments)}
LastValueOf(segments, key) ==
  segments[2 * Greatest({j \in PairsOf(segments) : segments[2 * j - 1] = key})]

EvenWithoutCapture(segments) ==
  /\ Len(segments) % 2 = 0
  /\ \A j \in PairsOf(segments) : ~EndsWith(segments[2 * j - 1], sLast)

\* C3 (as the code has it): in NAMED mode a segment list of even length without a
\* capture key resolves to one entry per distinct key, each key mapped to the
\* segment that follows its last occurrence; with pairwise distinct keys these are
\* Len(segments) / 2 entries.
C3_OneEntryPerKey ==
  ~USE_POSITIONAL_PARAMS =>
    \A R \in Handled :
      EvenWithoutCapture(R.segments) =>
        /\ R.stage # "resolve"
        /\ DOMAIN R.params = KeysOf(R.segments)
        /\ \A key \in KeysOf(R.segments) : R.params[key] = LastValueOf(R.segments, key)

C3_Witness ==
  \E R \in Handled :
    /\ ~USE_POSITIONAL_PARAMS
    /\ R.segments = <<sP, sF, sP, sSpaced>>
    /\ R.params = (sP :> sSpaced)

\* C3 as stated: exactly Len(segments) / 2 entries, each mapping segments[2k] to
\* segments[2k+1].
C3_OneEntryPerPair ==
  ~USE_POSITIONAL_PARAMS =>
    \A R \in Handled :
      EvenWithoutCapture(R.segments) =>
        /\ R.stage # "resolve"
        /\ Cardinality(DOMAIN R.params) = Len(R.segments) \div 2
        /\ \A j \in PairsOf(R.segments) :
             /\ R.segments[2 * j - 1] \in DOMAIN R.params
             /\ R.params[R.segments[2 * j - 1]] = R.segments[2 * j]

PositionalResolved(R, M) ==
  IF Len(R.segments) >= M
  THEN \A j \in 1..M :
         /\ NumToString(j) \in DOMAIN R.params
         /\ R.params[NumToString(j)] =
              IF j < M THEN R.segments[j]
              ELSE Join(SubSeq(R.segments, M, Len(R.segments)), sSlash)
  ELSE /\ R.pc = "done"
       /\ R.fetches = 0
       /\ R.response.status = 400
       /\ R.response.error = "Missing required parameter: "

\* C4: in POSITIONAL mode with M the highest numeric placeholder of the template,
\* a segment list of length >= M gives parameter M the segments from the M-th on
\* joined with "/" and parameters 1..M-1 the single segments before it; a shorter
\* list is answered 400 for a missing parameter and nothing is fetched.
C4_PositionalResolution ==
  USE_POSITIONAL_PARAMS =>
    \A R \in Handled :
      MaxPlaceholder(PatternOf(R)) >= 1 => PositionalResolved(R, MaxPlaceholder(PatternOf(R)))

C4_Witness ==
  \E R \in Handled :
    /\ USE_POSITIONAL_PARAMS
    /\ PatternOf(R) = tpl12
    /\ R.segments = <<sF, sSpaced, sF>>
    /\ R.params[<<"2">>] = Join(<<sSpaced, sF>>, sSlash)
    /\ R.fetches = 1

\* The indexes of the placeholders of a template that params gives no non-empty value
MissingIn(placeholders, params) ==
  {i \in 1..Len(placeholders) :
     placeholders[i] \notin DOMAIN params \/ params[placeholders[i]] = <<>>}

MissingAnswered(R, placeholders, missing) ==
  missing # {} =>
    /\ R.pc = "done"
    /\ R.fetches = 0
    /\ R.targetUrl = null
    /\ R.response.status = 400
    /\ R.response.error = "Missing required parameter: "
    /\ R.response.arg = placeholders[Least(missing)]

C6_UnpairedKeyRejected ==
  ~USE_POSITIONAL_PARAMS =>
    \A R \in Handled :
      (Len(R.segments) % 2 = 1 /\ CaptureKeys(R.segments) = {}) =>
        /\ R.pc = "done"
        /\ R.stage = "resolve"
        /\ R.fetches = 0
        /\ R.targetUrl = null
        /\ R.response.status = 400
        /\ R.response.error = "Missing value for key: "
        /\ R.response.arg = R.segments[Len(R.segments)]

C6_Witness ==
  \E R \in Handled :
    /\ ~USE_POSITIONAL_PARAMS
    /\ R.segments = <<sS, sF, sPLast>>
    /\ R.response.status = 400
    /\ R.response.arg = sPLast

\* A rule is satisfied: every name of the rule is in params with a value its
\* pattern matches (nonEmpty: and the value is not the empty string)
Satisfies(rule, params, nonEmpty) ==
  \A name \in DOMAIN rule :
    /\ name \in DOMAIN params
    /\ nonEmpty => params[name] # <<>>
    /\ RegexTest(rule[name], params[name])

Permits(params, nonEmpty) ==
  Len(ALLOWED) = 0 \/ \E i \in 1..Len(ALLOWED) : Satisfies(ALLOWED[i], params, nonEmpty)

RECURSIVE WildcardMatch(_, _, _)
WildcardMatch(pattern, value, dotIsAny) ==
  IF pattern = <<>> THEN value = <<>>
  ELSE IF Head(pattern) = "*"
  THEN \E n \in 0..Len(value) :
         WildcardMatch(Tail(pattern), SubSeq(value, n + 1, Len(value)), dotIsAny)
  ELSE /\ value # <<>>
       /\ Head(value) = Head(pattern) \/ (dotIsAny /\ Head(pattern) = ".")
       /\ WildcardMatch(Tail(pattern), Tail(value), dotIsAny)

RefusedBy(pattern, resolved) ==
  \/ resolved.error # ""
  \/ validatePlaceholders(pattern, resolved.params) # null
  \/ ~isAllowed(ALLOWED, resolved.params)

Refused(R) == RefusedBy(PatternOf(R), Resolve(PatternOf(R), R.segments))

RefusedByAllowList(R) == R.stage = "authorize"

\* One step seen from a refused request
C9_Step ==
  /\ \A r \in Slots : req'[r].pc = "fetching" => ~Refused(req'[r])
  /\ (sent'.pc # "idle" /\ sent'.stage # "route" /\ Refused(sent')) =>
       /\ sent'.pc = "done"
       /\ sent'.fetches = 0
       /\ ~sent'.lookup.done
       /\ sent'.response.body = ""
       /\ sent'.response.status = IF RefusedByAllowList(sent') THEN 403 ELSE 400
       /\ cacheFiles' = cacheFiles

\* C9: a request that fails resolution, placeholder validation or the allow-list
\* check (403) starts no fetch, reads no cache entry and writes none; a cached
\* entry is never served to a request the allow-list rejects.
C9_RefusedTouchesNothing == [][C9_Step]_vars

C9_Witness ==
  /\ sent.stage = "authorize"
  /\ sent.response.status = 403
  /\ isCacheValid(cacheFiles,
                  getCacheFilePaths(sent.service,
                    generateCacheKey(buildUrl(PatternOf(sent), sent.params,
                                              USE_POSITIONAL_PARAMS), sent.params)),
                  CACHE_TIMEOUTS[sent.service], now)

ContentTypeOf(metadata) ==
  IF metadata.contentType # "" THEN metadata.contentType ELSE "application/octet-stream"

\* What the cache check of request R has to come to, given the directory fs it
\* found at time t
EntryOutcome(R, fs, cp, ttl, t) ==
  IF \/ cp.content \notin DOMAIN fs.files
     \/ cp.metadata \notin DOMAIN fs.files
     \/ t - fs.files[cp.metadata].mtime >= ttl
  THEN R.pc = "fetching" /\ R.fetches = 1 /\ R.response = NoResponse
  ELSE \/ /\ R.pc = "done"
          /\ R.fetches = 0
          /\ R.response.status = 200
          /\ R.response.body = fs.files[cp.content].data
          /\ R.response.headers["Content-Type"] = ContentTypeOf(fs.files[cp.metadata].data)
       \/ R.lookup.io = "read" /\ R.pc = "fetching" /\ R.fetches = 1

LookupOutcome(R, fs, t) ==
  EntryOutcome(R, fs, getCacheFilePaths(R.service, generateCacheKey(R.targetUrl, R.params)),
               CACHE_TIMEOUTS[R.service], t)

\* One step seen from the cache check of a request on a cached route
C10_Step ==
  /\ \A r \in Slots :
       (req[r].pc = "idle" /\ req'[r].pc = "fetching" /\ CACHE_TIMEOUTS[req'[r].service] > 0)
         => LookupOutcome(req'[r], cacheFiles, now)
  /\ sent'.stage = "cache" => LookupOutcome(sent', cacheFiles, now)

\* C10: on a route with ttl > 0 the cache check takes the entry of the target URL
\* as absent when its content file is missing, its metadata file is missing or its
\* age is >= ttl: it does not raise and the request goes on to the fetch.  Only
\* with both files and age < ttl are the stored bytes and content type returned.
C10_LookupAbsentOrStored == [][C10_Step]_vars

C10_Witness ==
  /\ req["r1"].pc = "fetching"
  /\ req["r1"].targetUrl = StrayUrl
  /\ req["r1"].lookup.done
  /\ StrayPaths.content \in DOMAIN cacheFiles.files
  /\ StrayPaths.metadata \notin DOMAIN cacheFiles.files

\* The files of the entry of request R
PathsOf(R) == getCacheFilePaths(R.service, generateCacheKey(R.targetUrl, R.params))

\* Both files of the entry of request R are in fs
EntryIn(fs, R) == Exists(fs, PathsOf(R).content) /\ Exists(fs, PathsOf(R).metadata)

AgeIn(fs, R, t) == t - fs.files[PathsOf(R).metadata].mtime

\* The step is a sweep, or an invalidation that was let through
Removal(m) == m.endpoint \in {"cleanup", "timer", "invalidate"} /\ m.status \in {0, 200}

\* The step stored the response of the request that ended in it
Stores(R) == R.stage = "store" /\ R.response.status = 200

\* The store leaves the entry with the bytes and the content type it answers with
C11_StoreKeeps(R, fs, t) ==
  Stores(R) =>
    /\ EntryIn(fs, R)
    /\ fs.files[PathsOf(R).content] = [data |-> R.response.body, mtime |-> t]
    /\ fs.files[PathsOf(R).metadata] =
         [data |-> [contentType |-> R.response.headers["Content-Type"], timestamp |-> t],
          mtime |-> t]

\* Between a store and the next store, invalidation or sweep the files stay as
\* they are
C11_EntryStays(R, m, before, after) ==
  \A f \in DOMAIN before.files :
    \/ f \in DOMAIN after.files /\ after.files[f] = before.files[f]
    \/ Stores(R) /\ f \in {PathsOf(R).content, PathsOf(R).metadata}
    \/ Removal(m)

\* A request whose entry is stored is answered from it exactly while age < ttl
C11_Answer(R, fs, t) ==
  /\ (R.pc = "fetching" /\ R.lookup.done /\ EntryIn(fs, R))
       => AgeIn(fs, R, t) >= CACHE_TIMEOUTS[R.service]
  /\ (R.pc = "done" /\ R.stage = "cache") =>
       /\ EntryIn(fs, R)
       /\ AgeIn(fs, R, t) < CACHE_TIMEOUTS[R.service]
       /\ R.fetches = 0
       /\ R.response.status = 200
       /\ R.response.headers["X-Cache"] = "HIT"
       /\ R.response.body = fs.files[PathsOf(R).content].data
       /\ R.response.headers["Content-Type"] =
            fs.files[PathsOf(R).metadata].data.contentType

C11_Step ==
  /\ C11_StoreKeeps(sent', cacheFiles', now)
  /\ C11_EntryStays(sent', mgmt', cacheFiles, cacheFiles')
  /\ C11_Answer(sent', cacheFiles, now)
  /\ \A r \in Slots : req[r].pc = "idle" => C11_Answer(req'[r], cacheFiles, now)

\* C11: a store for (route, URL) leaves the entry with the bytes B and the
\* content type T of the response; until the next store, invalidation or sweep
\* the entry stays as it is; and a request for that (route, URL) is answered
\* with X-Cache: HIT, body B and Content-Type T while the age of the entry is
\* below the ttl of the route, and goes to the upstream once the age is >= ttl.
C11_FreshEntryIsServed == [][C11_Step]_vars

C11_Witness ==
  /\ sent.pc = "done" /\ sent.stage = "cache"
  /\ sent.response.headers["X-Cache-Age"] = 1
  /\ sent.response.headers["X-Cache-Expires-In"] = 1
  /\ sent.response.body = "b2"
  /\ sent.response.headers["Content-Type"] = "application/octet-stream"

\* The files the step created or overwrote
Written(before, after) ==
  {f \in DOMAIN after.files : f \notin DOMAIN before.files \/ after.files[f] # before.files[f]}

\* A file is created or overwritten only for the entry of a request on a cached
\* route whose upstream answered 200
C12_OnlyStoreWrites(R, before, after) ==
  Written(before, after) # {} =>
    /\ R.pc = "done" /\ R.stage = "store"
    /\ CACHE_TIMEOUTS[R.service] > 0
    /\ R.upstream = "ok" /\ R.upstreamStatus = 200
    /\ Written(before, after) \subseteq {PathsOf(R).content, PathsOf(R).metadata}

\* A request that ends otherwise, or awaits its fetch, leaves every file as it is
C12_OthersKeep(R, before, after) ==
  (R.pc # "idle" /\ ~(R.upstreamStatus = 200 /\ CACHE_TIMEOUTS[R.service] > 0))
    => after.files = before.files

C12_Step ==
  /\ C12_OnlyStoreWrites(sent', cacheFiles, cacheFiles')
  /\ sent'.stage # "route" => C12_OthersKeep(sent', cacheFiles, cacheFiles')
  /\ \A r \in Slots : req[r].pc = "idle" => C12_OthersKeep(req'[r], cacheFiles, cacheFiles')

\* C12: a cache entry is created or overwritten only by a request on a route
\* with ttl > 0 whose upstream fetch returned HTTP 200; a request whose upstream
\* returned another status, whose fetch failed, whose route has ttl 0 or that was
\* answered from the cache leaves every cache file unchanged.
C12_OnlyOkResponsesAreStored == [][C12_Step]_vars

C12_Witness ==
  /\ sent.pc = "done" /\ sent.upstreamStatus = 201
  /\ CACHE_TIMEOUTS[sent.service] > 0
  /\ sent.response.status = 200
  /\ ~EntryIn(cacheFiles, sent)

\* The response of request R carries X-Cache: MISS
AnsweredMiss(R) ==
  /\ R.pc = "done"
  /\ "X-Cache" \in DOMAIN R.response.headers
  /\ R.response.headers["X-Cache"] = "MISS"

\* C13: on a route with ttl > 0, whenever the upstream fetch succeeds (any 2xx)
\* the body is stored before the response is sent, so every response with
\* X-Cache: MISS comes with a state in which the entry of its (route, URL)
\* exists and is fresh.
C13_MissIsStored ==
  AnsweredMiss(sent) =>
    /\ EntryIn(cacheFiles, sent)
    /\ AgeIn(cacheFiles, sent, now) < CACHE_TIMEOUTS[sent.service]
    /\ cacheFiles.files[PathsOf(sent).content].data = sent.response.body

\* The keys of the content + metadata pairs of a service directory
PairKeysOf(fs, service) ==
  {k \in CacheKeysOf(fs, service) : Exists(fs, getCacheFilePaths(service, k).metadata)}

\* The keys of all the files of a service directory
AllKeysOf(fs, service) == {f[2] : f \in {g \in DOMAIN fs.files : g[1] = service}}

\* No lookup on the service finds a valid entry
AllMiss(fs, service, t) ==
  \A k \in AllKeysOf(fs, service) :
    ~isCacheValid(fs, getCacheFilePaths(service, k), CACHE_TIMEOUTS[service], t)

\* The invalidation was authorized and names a configured route
Invalidates(m) ==
  m.endpoint = "invalidate" /\ m.auth = "rightKey" /\ m.service \in DOMAIN URL_PATTERNS

\* What an authorized invalidation of a configured route does, but for the count
C14_Deletes(m, before, after, t) ==
  /\ m.status = 200
  /\ \A k \in PairKeysOf(before, m.service) :
       /\ ~Exists(after, getCacheFilePaths(m.service, k).content)
       /\ ~Exists(after, getCacheFilePaths(m.service, k).metadata)
  /\ CacheKeysOf(after, m.service) = {}
  /\ AllMiss(after, m.service, t)
  /\ (m.service \notin before.dirs \/ AllKeysOf(before, m.service) = {}) => m.count = 0

C14_Step ==
  Invalidates(mgmt') =>
    /\ C14_Deletes(mgmt', cacheFiles, cacheFiles', now)
    /\ mgmt'.count = Cardinality(CacheKeysOf(cacheFiles, mgmt'.service))

C14_StepPairs ==
  Invalidates(mgmt') =>
    /\ C14_Deletes(mgmt', cacheFiles, cacheFiles', now)
    /\ mgmt'.count = Cardinality(PairKeysOf(cacheFiles, mgmt'.service))

OthersUntouched(service, before, after) ==
  /\ DOMAIN after.files \subseteq DOMAIN before.files
  /\ \A f \in DOMAIN before.files :
       f[1] # service => f \in DOMAIN after.files /\ after.files[f] = before.files[f]

C15_Step ==
  mgmt'.endpoint = "invalidate" =>
    /\ OthersUntouched(mgmt'.service, cacheFiles, cacheFiles')
    /\ (mgmt'.auth = "rightKey" /\ mgmt'.service \notin DOMAIN URL_PATTERNS)
         => mgmt'.status = 400 /\ mgmt'.error = "Invalid service"
    /\ mgmt'.status # 200 => cacheFiles' = cacheFiles

\* C15: invalidateRoute(r) leaves the files of every route other than r as they
\* were; an invalidation that fails (a route name that is not configured, 400)
\* changes no file.
C15_InvalidateTouchesOneRoute == [][C15_Step]_vars

C15_Witness ==
  /\ mgmt.endpoint = "invalidate" /\ mgmt.status = 200
  /\ mgmt.service = "b" /\ mgmt.count = 1
  /\ PairKeysOf(cacheFiles, "a") # {}
  /\ PairKeysOf(cacheFiles, "c") # {}
  /\ PairKeysOf(cacheFiles, "zz") # {}

\* The step ran cleanExpiredCacheFiles
Sweeps(m) == m.endpoint \in {"cleanup", "timer"} /\ m.status \in {0, 200}

\* The files the step deleted
Deleted(before, after) == DOMAIN before.files \ DOMAIN after.files

\* The route of the file is cached
CachedRoute(service) == service \in DOMAIN CACHE_TIMEOUTS /\ CACHE_TIMEOUTS[service] > 0

\* The entries of which the sweep deleted all there was
EntriesDeleted(before, after) ==
  {f \in Deleted(before, after) :
     f[3] = ".cache" /\ ~Exists(after, getCacheFilePaths(f[1], f[2]).metadata)}

\* The sweep creates and changes no file, deletes in the directories of cached
\* routes only, never an entry a lookup would serve, and counts what it deleted
C16_Frame(m, before, after, t) ==
  /\ Written(before, after) = {}
  /\ \A f \in Deleted(before, after) :
       /\ CachedRoute(f[1])
       /\ ~isCacheValid(before, getCacheFilePaths(f[1], f[2]), CACHE_TIMEOUTS[f[1]], t)
  /\ m.count = Cardinality(EntriesDeleted(before, after))

\* The file went with its entry: a pair whose age is >= ttl
AgedPair(f, before, t) ==
  /\ Exists(before, getCacheFilePaths(f[1], f[2]).content)
  /\ Exists(before, getCacheFilePaths(f[1], f[2]).metadata)
  /\ t - before.files[getCacheFilePaths(f[1], f[2]).metadata].mtime >= CACHE_TIMEOUTS[f[1]]

C16_Step ==
  Sweeps(mgmt') =>
    /\ C16_Frame(mgmt', cacheFiles, cacheFiles', now)
    /\ \A f \in Deleted(cacheFiles, cacheFiles') :
         \/ AgedPair(f, cacheFiles, now)
         \/ f[3] = ".cache" /\ ~Exists(cacheFiles, getCacheFilePaths(f[1], f[2]).metadata)

C16_StepAged ==
  Sweeps(mgmt') =>
    /\ C16_Frame(mgmt', cacheFiles, cacheFiles', now)
    /\ \A f \in Deleted(cacheFiles, cacheFiles') : AgedPair(f, cacheFiles, now)

ReadFailed(R) == R.lookup.done /\ R.lookup.io # "ok"
WriteFailed(R) == R.stage = "store" /\ R.storeIo # "ok"

\* C17: no failure of a cache file operation (the mkdir of the directory, the
\* stat or read of an entry, the parse of its metadata, either write of the
\* store) is fatal to the request: it still completes; a failure on the read
\* side is handled as a miss, and a failure on the write side leaves the
\* upstream response served with its success status.
C17_CacheFailuresAreNotFatal ==
  /\ sent.pc # "threw"
  /\ (sent.pc = "done" /\ ReadFailed(sent)) => sent.fetches = 1
  /\ (sent.pc = "done" /\ WriteFailed(sent)) =>
       sent.response.status = 200 /\ sent.response.body # ""

\* Requests R and Q are for the same (route, URL)
SameEntry(R, Q) == R.service = Q.service /\ R.targetUrl = Q.targetUrl

\* The entry of R holds what the response of R carries, written at t
HoldsResponseOf(fs, R, t) ==
  /\ EntryIn(fs, R)
  /\ fs.files[PathsOf(R).content] = [data |-> R.response.body, mtime |-> t]
  /\ fs.files[PathsOf(R).metadata].data =
       [contentType |-> R.response.headers["Content-Type"], timestamp |-> t]

\* The start of a request in slot r: no request in flight holds it back or
\* answers it, it goes to its own fetch unless the entry on disk is valid
C18_Starts(r, o) ==
  (req[r].pc = "idle" /\ req'[r].pc = "fetching") =>
    /\ req'[o] = req[o]
    /\ req'[r].fetches = 1
    /\ CACHE_TIMEOUTS[req'[r].service] > 0 =>
         ~isCacheValid(cacheFiles, PathsOf(req'[r]), CACHE_TIMEOUTS[req'[r].service], now)

\* The end of the request of slot r: it writes the entry, whatever the entry
\* holds and whoever else is fetching the same URL
C18_Ends(r, o) ==
  (req[r].pc = "fetching" /\ req'[r].pc = "idle") =>
    /\ req'[o] = req[o]
    /\ SameEntry(sent', req[r])
    /\ (sent'.upstreamStatus = 200 /\ CACHE_TIMEOUTS[sent'.service] > 0)
         => HoldsResponseOf(cacheFiles', sent', now)

C18_Step == \A r \in Slots, o \in Slots : r # o => C18_Starts(r, o) /\ C18_Ends(r, o)

\* C18: two overlapping requests for the same uncached URL are not serialized:
\* the second starts its own fetch while the first awaits its own, each writes
\* the entry when its fetch returns 200, and after each write the entry holds
\* the metadata and the content of that write, so that once both have
\* completed it holds those of the last write.
C18_OverlappingRequestsLastWriteWins == [][C18_Step]_vars

C18_Witness ==
  /\ sent.stage = "store" /\ sent.response.body = "b1"
  /\ req["r2"].pc = "fetching" /\ SameEntry(req["r2"], sent)
  /\ ~req["r2"].lookup.contentExists
  /\ HoldsResponseOf(cacheFiles, sent, now)

\* The expired entries of the service are gone, both files of each
SweptClean(service, before, after, t) ==
  \A k \in ExpiredKeys(before, service, t) :
    /\ ~Exists(after, getCacheFilePaths(service, k).content)
    /\ ~Exists(after, getCacheFilePaths(service, k).metadata)

\* The entries of the service the sweep deleted
DeletedIn(service, before, after) ==
  {f \in EntriesDeleted(before, after) : f[1] = service}

C19_Step ==
  (Sweeps(mgmt') /\ mgmt'.fault # NoFault) =>
    /\ mgmt'.endpoint = "cleanup" => mgmt'.status = 200 /\ mgmt'.error = ""
    /\ \A sv \in SweptServices(cacheFiles) :
         sv # mgmt'.fault.service => SweptClean(sv, cacheFiles, cacheFiles', now)
    /\ mgmt'.count = Cardinality(EntriesDeleted(cacheFiles, cacheFiles'))
    /\ mgmt'.count >= Cardinality(DeletedIn(mgmt'.fault.service, cacheFiles, cacheFiles'))

\* C19: within one run of the sweep, a file operation that throws in the
\* namespace of one route does not abort the run: every other namespace with
\* ttl > 0 is swept, the error is not propagated to the caller, and the entries
\* deleted, those deleted before the throw too, are counted.
C19_SweepGoesOnAfterAnError == [][C19_Step]_vars

C19_Witness ==
  /\ mgmt.endpoint = "cleanup" /\ mgmt.status = 200 /\ now = 2
  /\ mgmt.fault.service = "a" /\ mgmt.fault.op = "unlinkContent"
  /\ Cardinality(CacheKeysOf(cacheFiles, "a")) = 1
  /\ CacheKeysOf(cacheFiles, "b") = {}
  /\ mgmt.count = 2

\* The step is a callback of a timer of the scheduler
TimerRan(m) == m.endpoint = "timer"

\* The scheduler is started exactly when some route is cached, and the clock
\* passes no deadline of it
C20_Scheduled ==
  /\ sweepTimer # "off" <=> \E sv \in DOMAIN CACHE_TIMEOUTS : CACHE_TIMEOUTS[sv] > 0
  /\ sweepTimer = "initial" => sweepDue = InitialCleanupDelay
  /\ sweepTimer # "off" => now <= sweepDue

C20_Step ==
  /\ C20_Scheduled
  /\ TimerRan(mgmt') =>
       /\ sweepTimer # "off"
       /\ now >= InitialCleanupDelay
       /\ now = sweepDue
       /\ sweepTimer = "interval" => now - CACHE_CLEANUP_INTERVAL >= InitialCleanupDelay
       /\ sweepTimer' = "interval"
       /\ sweepDue' = now + CACHE_CLEANUP_INTERVAL
       /\ req' = req
  /\ (sweepTimer' # sweepTimer \/ sweepDue' # sweepDue) =>
       TimerRan(mgmt') /\ sweepTimer' = "interval"

\* C20: the background sweep is scheduled only when some route has ttl > 0;
\* no timer-driven sweep runs before the initial delay has elapsed; the
\* interval timer is armed only by the first sweep; from then on a sweep runs
\* once per CACHE_CLEANUP_INTERVAL, each when its timer is due, while requests
\* are handled between the sweeps.
C20_SweepSchedule ==
  /\ [][C20_Step]_vars
  /\ (sweepTimer = "initial") ~> (sweepTimer = "interval")
  /\ TimerDue ~> (TimerRan(mgmt) /\ now < sweepDue)

C20_Witness ==
  /\ TimerRan(mgmt) /\ mgmt.count = 1
  /\ CACHE_CLEANUP_INTERVAL = ExampleCleanupInterval
  /\ now = InitialCleanupDelay + 2 * CACHE_CLEANUP_INTERVAL
  /\ sweepDue = InitialCleanupDelay + 3 * CACHE_CLEANUP_INTERVAL
  /\ req["r1"].pc = "fetching"

\* The route name is no key of the configured pattern table
Unconfigured(service) == URL_PATTERNS_ENV /\ service \notin DOMAIN URL_PATTERNS

\* C21: in multi-pattern mode a request that names a route that is no key of
\* the configured pattern table is answered 400 "Invalid service" and goes no
\* further (no resolution, no fetch, no cache access); the same holds for
\* invalidateRoute with a route name that is not configured.
C21_UnknownRouteIsRefused ==
  /\ (sent.pc # "idle" /\ Unconfigured(sent.service)) =>
       /\ sent.pc = "done"
       /\ sent.response.status = 400
       /\ sent.response.error = "Invalid service"
       /\ sent.fetches = 0 /\ ~sent.lookup.done /\ sent.params = <<>>
  /\ (mgmt.endpoint = "invalidate" /\ mgmt.auth = "rightKey" /\ Unconfigured(mgmt.service)) =>
       mgmt.status = 400 /\ mgmt.error = "Invalid service"

\* The upstream of request R answered with a status outside 200..299
UpstreamRefused(R) ==
  R.pc = "done" /\ R.upstream = "notOk" /\ (R.upstreamStatus < 200 \/ R.upstreamStatus > 299)

C22_Step ==
  /\ UpstreamRefused(sent') =>
       /\ sent'.response.status = sent'.upstreamStatus
       /\ sent'.response.error = "Upstream fetch failed"
       /\ sent'.response.body = ""
       /\ sent'.response.headers["Content-Type"] = "application/json"
       /\ cacheFiles' = cacheFiles
  /\ \A r \in Slots :
       (req[r].pc = "fetching" /\ req'[r].pc = "idle" /\ sent'.upstreamStatus \notin 200..299
        /\ sent'.upstream # "error") => UpstreamRefused(sent')

\* C22: when the upstream answers with a non-2xx status s, the caller receives a
\* response with status s and an error body in place of the upstream body, and
\* nothing is written to the cache.
C22_UpstreamStatusIsPropagated == [][C22_Step]_vars

C22_Witness ==
  /\ UpstreamRefused(sent) /\ sent.response.status = 503
  /\ CACHE_TIMEOUTS[sent.service] > 0
  /\ EntryIn(cacheFiles, sent)
  /\ cacheFiles.files[PathsOf(sent).content].data = "b2"

\* The fetch of request R threw: a network-level failure
FetchThrew(R) == R.pc = "done" /\ R.upstream = "error"

C23_Step ==
  /\ \A r \in Slots :
       /\ req'[r].fetches <= 1
       /\ (req[r].pc = "fetching" /\ req'[r] # req[r]) =>
            /\ req'[r] = IdleReq
            /\ sent'.fetches = 1 /\ sent'.pc = "done" /\ sent'.targetUrl = req[r].targetUrl
  /\ sent'.fetches <= 1
  /\ FetchThrew(sent') =>
       /\ sent'.response.status = 500
       /\ sent'.response.error = "Failed to fetch target"
       /\ sent'.response.body = ""
       /\ cacheFiles' = cacheFiles

\* C23: a request makes at most one upstream fetch; a fetch that throws is not
\* retried and is answered 500 with one fixed message whatever the error, and
\* changes no cache file.
C23_FetchFailureIsNotRetried == [][C23_Step]_vars

C23_Witness ==
  /\ FetchThrew(sent) /\ sent.fetches = 1 /\ sent.response.status = 500
  /\ CACHE_TIMEOUTS[sent.service] > 0
  /\ EntryIn(cacheFiles, sent)

\* A management request came without the configured key
Unauthenticated(M) ==
  M.endpoint \in {"invalidate", "cleanup"} /\ M.auth \in {"missing", "notBearer", "wrongKey"}

C24_Step ==
  /\ Unauthenticated(mgmt') =>
       /\ mgmt'.status = 401
       /\ mgmt'.error \in {"Missing or invalid Authorization header", "Invalid API key"}
       /\ mgmt'.count = 0
       /\ cacheFiles' = cacheFiles
  /\ mgmt'.status # 403

\* C24: a DELETE /invalidate-cache/<route> or a POST /cleanup-cache whose bearer
\* token is missing, is no Bearer token or is the wrong key is answered 401, never
\* 403, and leaves every cache file as it was; the token is checked before the
\* route name, so that a configured and an unconfigured route get the same 401.
C24_UnauthenticatedIsRefused == [][C24_Step]_vars

C24_Witness ==
  /\ Unauthenticated(mgmt) /\ mgmt.endpoint = "invalidate" /\ mgmt.auth = "wrongKey"
  /\ mgmt.service = "zz" /\ Unconfigured("zz")
  /\ mgmt.status = 401
  /\ \E f \in DOMAIN cacheFiles.files : TRUE

\* Some file of the cache directory is gone after the step
FilesRemoved == \E f \in DOMAIN cacheFiles.files : f \notin DOMAIN cacheFiles'.files

C25_Step ==
  CACHE_API_KEY = null =>
    /\ mgmt'.endpoint \notin {"invalidate", "cleanup"}
    /\ mgmt'.endpoint = "unrouted" => cacheFiles' = cacheFiles /\ mgmt'.count = 0
    /\ FilesRemoved => mgmt'.endpoint = "timer"

\* C25: with no CACHE_API_KEY the management endpoints do not exist: no request
\* runs the invalidation of a route, and the expiry sweep runs only from the
\* timer of the scheduler.
C25_NoKeyNoManagement == [][C25_Step]_vars

C25_Witness ==
  /\ CACHE_API_KEY = null
  /\ mgmt.endpoint = "unrouted" /\ mgmt.auth = "rightKey"
  /\ sweepTimer = "interval"
  /\ \E f \in DOMAIN cacheFiles.files : now - cacheFiles.files[f].mtime > CACHE_TIMEOUTS[f[1]]

\* processRequest sent a response for the request R
PipelineAnswered(R) == R.pc = "done" /\ R.stage # "route"

\* C26: every response sent for a proxied request, on every terminal path (hit,
\* miss, 400, 403, propagated upstream status, 500), carries the header
\* Access-Control-Allow-Origin: * and a Content-Type header.
C26_EveryResponseAllowsAnyOrigin ==
  PipelineAnswered(sent) =>
    /\ "Content-Type" \in DOMAIN sent.response.headers
    /\ "Access-Control-Allow-Origin" \in DOMAIN sent.response.headers
    /\ sent.response.headers["Access-Control-Allow-Origin"] = "*"

\* The request R was answered with a body
Successful(R) == R.pc = "done" /\ R.response.error = "" /\ R.response.status = 200

XCache(R) == R.response.headers["X-Cache"]

FreshnessHeaders == {"X-Cache-Age", "X-Cache-Expires-In", "X-Cache-Expires-At", "Cache-Control"}

C27_Headers ==
  Successful(sent) =>
    /\ "X-Cache" \in DOMAIN sent.response.headers
    /\ XCache(sent) \in {"HIT", "MISS", "DISABLED"}
    /\ XCache(sent) = "HIT" <=> (sent.lookup.read /\ sent.fetches = 0)
    /\ XCache(sent) = "MISS" <=> (sent.fetches = 1 /\ CACHE_TIMEOUTS[sent.service] > 0)
    /\ XCache(sent) = "DISABLED" <=> CACHE_TIMEOUTS[sent.service] = 0
    /\ XCache(sent) \in {"HIT", "MISS"} =>
         FreshnessHeaders \subseteq DOMAIN sent.response.headers
    /\ XCache(sent) = "MISS" => sent.response.headers["X-Cache-Age"] = 0

C27_Step ==
  /\ C27_Headers'
  /\ (Successful(sent') /\ XCache(sent') = "HIT") =>
       /\ EntryIn(cacheFiles, sent')
       /\ sent'.response.body = cacheFiles.files[PathsOf(sent').content].data
       /\ sent'.response.headers["X-Cache-Age"] = AgeIn(cacheFiles, sent', now)

\* C27: on every successful response the X-Cache header states the path the
\* request took: HIT exactly when the body was read from the cache and no fetch
\* was made, MISS exactly when it was fetched on a route with a cache time above
\* 0, DISABLED exactly when the cache time of the route is 0; HIT and MISS carry
\* X-Cache-Age, X-Cache-Expires-In, X-Cache-Expires-At and Cache-Control, and
\* X-Cache-Age is 0 on a MISS.
C27_XCacheStatesThePath == [][C27_Step]_vars

C27_Witness ==
  /\ Successful(sent) /\ XCache(sent) = "HIT"
  /\ sent.response.headers["X-Cache-Age"] > 0
  /\ sent.response.headers["X-Cache-Expires-In"] = CACHE_TIMEOUTS[sent.service] - 1

\* The environment variable is set to a non-empty string
Supplied(v) == v # null

C28_Step ==
  /\ (process = "starting" /\ process' # "starting") =>
       /\ process' = "exited" <=>
            (Supplied(env.URL_PATTERNS) <=> Supplied(env.URL_PATTERN))
       /\ process' = "listening" <=>
            (Supplied(env.URL_PATTERNS) # Supplied(env.URL_PATTERN))
       /\ (process' = "listening" /\ Supplied(env.URL_PATTERN)) =>
            /\ DOMAIN URL_PATTERNS' = {"DEFAULT"}
            /\ URL_PATTERNS'["DEFAULT"] = removeCacheFlag(env.URL_PATTERN)
  /\ process = "exited" => process' = "exited"
  /\ process' # "listening" =>
       /\ sent'.pc = "idle" /\ \A r \in Slots : req'[r].pc = "idle"
       /\ cacheFiles' = cacheFiles

\* C28: the start fails (the process exits and never listens nor serves a request)
\* when both URL_PATTERNS and URL_PATTERN are supplied and when neither is; with
\* exactly one of them the process starts, and the single-pattern configuration
\* gives exactly one route.
C28_StartNeedsExactlyOneSource == [][C28_Step]_vars

C28_Witness ==
  /\ process = "listening"
  /\ Supplied(env.URL_PATTERN) /\ ~Supplied(env.URL_PATTERNS)
  /\ DOMAIN URL_PATTERNS = {"DEFAULT"}
  /\ Successful(sent) /\ sent.service = "DEFAULT"

\* An entry of URL_PATTERNS with a name, a "=" and a template
WellFormedEntry(entry) ==
  /\ Includes(entry, "=")
  /\ EntryKey(entry) # null
  /\ SubSeq(entry, IndexOf(entry, "=") + 1, Len(entry)) # null

MalformedEntries(patternsEnv) ==
  {k \in 1..Len(Split(patternsEnv, ",")) : ~WellFormedEntry(Split(patternsEnv, ",")[k])}

\* C29: the start fails, and the process refuses to start, whenever an entry of
\* the named-multiple configuration is malformed (no "=", an empty name or an
\* empty template); a malformed entry is never dropped while the others are
\* served.
C29_MalformedEntryStopsTheStart ==
  (process = "listening" /\ Supplied(env.URL_PATTERNS)) =>
    MalformedEntries(env.URL_PATTERNS) = {}

\* The routes of the pattern table that have no numeric placeholder
Unnumbered == {sv \in DOMAIN URL_PATTERNS : NumericPlaceholders(URL_PATTERNS[sv]) = {}}

\* C30: in positional mode a route whose template has no numeric placeholder is
\* rejected when the pattern table is built at the start, so that no request is
\* ever resolved against such a route.
C30_UnnumberedRouteStopsTheStart ==
  USE_POSITIONAL_PARAMS =>
    /\ process = "listening" => Unnumbered = {}
    /\ (sent.pc # "idle" /\ sent.stage # "route") => sent.service \notin Unnumbered

\* String.prototype.includes
Contains(str, sub) ==
  \E i \in 1..(Len(str) - Len(sub) + 1) : SubSeq(str, i, i + Len(sub) - 1) = sub

sLastToken == sLast \o <<"}">>

\* The capture slots placeholder extraction finds in a template
CaptureSlots(pattern) ==
  {k \in 1..Len(Placeholders(pattern)) : EndsWith(Placeholders(pattern)[k], sLast)}

\* C31: in named mode a template token {name-last} is taken by placeholder
\* extraction as a placeholder that marks a capture slot: it is among the
\* placeholders of the route, is required (as name) by validation, and is
\* replaced by the captured value when the URL is built, so that no literal
\* "{name-last}" is left in a built target URL.
C31_LastTokenIsACaptureSlot ==
  (~USE_POSITIONAL_PARAMS /\ process = "listening") =>
    /\ \A sv \in DOMAIN URL_PATTERNS :
         Contains(URL_PATTERNS[sv], sLastToken) => CaptureSlots(URL_PATTERNS[sv]) # {}
    /\ sent.targetUrl # null => ~Contains(sent.targetUrl, sLastToken)

\* The state of the entry k of the cached route sv: absent while a lookup finds
\* no pair of files, fresh while a lookup serves it, stale otherwise
EntryState(fs, sv, k, t) ==
  IF ~(Exists(fs, getCacheFilePaths(sv, k).content)
       /\ Exists(fs, getCacheFilePaths(sv, k).metadata))
  THEN "ABSENT"
  ELSE IF isCacheValid(fs, getCacheFilePaths(sv, k), CACHE_TIMEOUTS[sv], t) THEN "FRESH"
  ELSE "STALE"

\* The entries the step can be seen to touch
StepEntries ==
  UNION {{<<sv, k>> : k \in AllKeysOf(cacheFiles, sv) \cup AllKeysOf(cacheFiles', sv)} :
         sv \in {x \in DOMAIN CACHE_TIMEOUTS : CACHE_TIMEOUTS[x] > 0}}

\* The step is the store of a request whose entry is e
StoredInStep(e) ==
  /\ Stores(sent') /\ sent'.service = e[1]
  /\ generateCacheKey(sent'.targetUrl, sent'.params) = e[2]

\* The step is the clock going on, and touches no file
ElapsedInStep == now' > now /\ cacheFiles' = cacheFiles

SweptInStep == Sweeps(mgmt')

InvalidatedInStep(e) == Invalidates(mgmt') /\ mgmt'.status = 200 /\ mgmt'.service = e[1]

\* The transition of entry e in the step, when its state changes
Moves(e, from, to) ==
  /\ EntryState(cacheFiles, e[1], e[2], now) = from
  /\ EntryState(cacheFiles', e[1], e[2], now') = to

Changes(e) ==
  EntryState(cacheFiles, e[1], e[2], now) # EntryState(cacheFiles', e[1], e[2], now')

C32_StepNarrow ==
  \A e \in StepEntries :
    Changes(e) =>
      \/ Moves(e, "ABSENT", "FRESH") /\ StoredInStep(e)
      \/ Moves(e, "FRESH", "STALE") /\ ElapsedInStep
      \/ Moves(e, "STALE", "ABSENT") /\ (SweptInStep \/ InvalidatedInStep(e))

\* C32 as stated: an entry changes state only along ABSENT -> FRESH by a store,
\* FRESH -> STALE by the ttl elapsing, and STALE -> ABSENT by a sweep or an
\* invalidation.
C32_EntryLifecycleOnly == [][C32_StepNarrow]_vars

C32_Step ==
  \A e \in StepEntries :
    Changes(e) =>
      \/ Moves(e, "ABSENT", "FRESH") /\ StoredInStep(e)
      \/ Moves(e, "FRESH", "STALE") /\ ElapsedInStep
      \/ Moves(e, "STALE", "ABSENT") /\ (SweptInStep \/ InvalidatedInStep(e))
      \/ Moves(e, "STALE", "FRESH") /\ StoredInStep(e)
      \/ Moves(e, "FRESH", "ABSENT") /\ InvalidatedInStep(e)

\* C32: an entry changes state only along ABSENT -> FRESH by a store, FRESH ->
\* STALE by the ttl elapsing, STALE -> ABSENT by a sweep or an invalidation,
\* STALE -> FRESH by the store of a request that found it stale, and FRESH ->
\* ABSENT by an invalidation of its route; a sweep never removes a fresh entry.
C32_EntryLifecycle == [][C32_Step]_vars

\* A request that found its entry stale has stored it again, and it is fresh
C32_Witness ==
  /\ Stores(sent)
  /\ sent.lookup.done /\ sent.lookup.contentExists /\ sent.lookup.metadataExists
  /\ ~sent.lookup.valid
  /\ EntryState(cacheFiles, sent.service,
                generateCacheKey(sent.targetUrl, sent.params), now) = "FRESH"

\* The content files that have no metadata file beside them
ContentWithoutMetadata(fs) ==
  {f \in DOMAIN fs.files : f[3] = ".cache" /\ <<f[1], f[2], ".meta">> \notin DOMAIN fs.files}

\* The metadata files that have no content file beside them
MetadataWithoutContent(fs) ==
  {f \in DOMAIN fs.files : f[3] = ".meta" /\ <<f[1], f[2], ".cache">> \notin DOMAIN fs.files}

\* C33: in every state of the cache directory that stores, sweeps and
\* invalidations produce, those included in which a write or an unlink fails
\* part-way, a content file exists only if the metadata file of the same key
\* exists: the store writes the metadata first, the sweep and the invalidation
\* remove the content first.
C33_ContentHasMetadata == ContentWithoutMetadata(cacheFiles) = {}

\* An unlink of a metadata file has thrown in a sweep or an invalidation, and
\* its entry is left without content
C33_Witness ==
  /\ mgmt.endpoint \in {"cleanup", "invalidate"} /\ mgmt.fault.op = "unlinkMetadata"
  /\ getCacheFilePaths(mgmt.fault.service, mgmt.fault.key).metadata
       \in MetadataWithoutContent(cacheFiles)

\* The request R was answered from the cache
AnsweredHit(R) == Successful(R) /\ XCache(R) = "HIT"

C34_Step ==
  AnsweredHit(sent') =>
    /\ sent'.fetches = 0 /\ sent'.upstream = ""
    /\ cacheFiles' = cacheFiles
    /\ sent'.stage = "cache"
    /\ req' = req

\* C34: a request answered as a cache hit makes no upstream fetch and changes no
\* cache file, neither content nor metadata (a hit does not renew the entry), and
\* goes from the cache check straight to its response.
C34_HitTouchesNothing == [][C34_Step]_vars

C34_Witness ==
  /\ AnsweredHit(sent) /\ sent.stage = "cache"
  /\ AgeIn(cacheFiles, sent, now) = 1
  /\ \E r \in Slots : req[r].pc = "fetching"

\* What is wrong with the request R, each taken on its own
Malformed(R) == Resolve(PatternOf(R), R.segments).error # ""
Incomplete(R) == MissingIn(Placeholders(PatternOf(R)), R.params) # {}
NotPermitted(R) == ~isAllowed(ALLOWED, R.params)

MalformedMessages == {"Missing value for key: ", "Invalid number of URL segments"}

C35_WitnessMalformed ==
  \E R \in Handled :
    /\ Malformed(R) /\ Incomplete(R) /\ NotPermitted(R)
    /\ R.response.status = 400 /\ R.stage = "resolve"

\* The entry of the pair (route, target URL): the digest of the URL names it
EntryOf(service, targetUrl) == getCacheFilePaths(service, [md5 |-> targetUrl])

FreshFor(fs, R, t) == EntryState(fs, R.service, [md5 |-> R.targetUrl], t) = "FRESH"

\* The request R entered processRequest in this step, on a cached route, and
\* came to its cache check
CheckedInStep(R) ==
  /\ R.pc \in {"done", "fetching"} /\ R.lookup.done
  /\ R.service \in DOMAIN CACHE_TIMEOUTS /\ CACHE_TIMEOUTS[R.service] > 0

C36_Lookup(R) ==
  CheckedInStep(R) =>
    /\ AnsweredHit(R) <=> FreshFor(cacheFiles, R, now)
    /\ AnsweredHit(R) =>
         R.response.body = cacheFiles.files[EntryOf(R.service, R.targetUrl).content].data

C36_Step ==
  /\ req' = req => C36_Lookup(sent')
  /\ \A r \in Slots : (req[r].pc = "idle" /\ req'[r].pc = "fetching") => C36_Lookup(req'[r])
  /\ Stores(sent') =>
       /\ Written(cacheFiles, cacheFiles')
            = {EntryOf(sent'.service, sent'.targetUrl).content,
               EntryOf(sent'.service, sent'.targetUrl).metadata}
       /\ cacheFiles'.files[EntryOf(sent'.service, sent'.targetUrl).content].data
            = sent'.response.body

\* C36: the entry a request uses is that of the pair (route name, built target
\* URL): two requests on one route whose different parameter sets build one URL
\* read and write the same entry, and an entry stored under one route is never
\* served to a request on another route that builds the same URL.
C36_EntryOfRouteAndUrl == [][C36_Step]_vars

\* A request with the parameter s is served the entry that a request without s
\* stored on route a, while route b, of the same URL, has no entry
C36_Witness ==
  /\ AnsweredHit(sent) /\ sent.service = "a" /\ sS \in DOMAIN sent.params
  /\ EntryState(cacheFiles, "b", [md5 |-> sent.targetUrl], now) = "ABSENT"
  /\ req["r1"].pc = "fetching" /\ req["r1"].service = "b"
  /\ req["r1"].targetUrl = sent.targetUrl

\* The handler of request R has returned or thrown: nothing of it is pending
Ended(R) == R.pc \notin {"idle", "fetching"}

\* C37: every proxied request ends in exactly one terminal outcome: once its
\* handler has run to its end (the fetch returned or failed), the request has
\* sent a response, whatever the route name, the segments, the cache state and
\* the outcome of the file operations.
C37_OneTerminalOutcome == Ended(sent) => sent.response # NoResponse

\* The step before this one was invalidateRoute of a route, run to its end
Invalidated(m) == Invalidates(m) /\ m.status = 200

\* Request r was fetching on the invalidated route while the invalidation ran,
\* and its fetch returns in this step
FetchedAcross(r) ==
  /\ Invalidated(mgmt) /\ req[r].pc = "fetching" /\ req[r].service = mgmt.service
  /\ req'[r].pc = "idle" /\ sent'.pc = "done" /\ sent'.fetches = 1

C38_Step ==
  \A r \in Slots : FetchedAcross(r) => ~EntryIn(cacheFiles', sent')

\* C38: after invalidateRoute(r) has completed, an entry of r holds content of
\* a fetch that started after the invalidation: a request that was already
\* fetching when the invalidation ran does not re-create an entry.
C38_NoEntryFromAnOlderFetch == [][C38_Step]_vars

\* The cache files of either kind in the namespace of a route
FilesOfRoute(fs, service) == {f \in DOMAIN fs.files : f[1] = service}

\* The metadata files without content whose age has reached the ttl of their route
StalePartial(fs, t) ==
  {f \in MetadataWithoutContent(fs) :
     /\ f[1] \in DOMAIN CACHE_TIMEOUTS /\ CACHE_TIMEOUTS[f[1]] > 0
     /\ t - fs.files[f].mtime >= CACHE_TIMEOUTS[f[1]]}

C39_Step ==
  /\ Invalidated(mgmt') => FilesOfRoute(cacheFiles', mgmt'.service) = {}
  /\ (mgmt'.endpoint = "cleanup" /\ mgmt'.status = 200 /\ mgmt'.fault = NoFault) =>
       StalePartial(cacheFiles', now') = {}

\* C39: the sweep and the invalidation also remove partial entries: after
\* invalidateRoute(r) has completed the namespace of r holds no cache file of
\* either kind, and after a sweep no metadata file without content is left
\* that is past the ttl of its route.
C39_PartialEntriesAreRemoved == [][C39_Step]_vars

\* The keys of a parameter set whose value contains "/"
Slashed(params) == {k \in DOMAIN params : Contains(params[k], sSlash)}

\* The key the capture rule fills for request R and the value it gives it: the
\* first "-last" key without its suffix in NAMED mode, the highest-numbered
\* placeholder in POSITIONAL mode, with the remaining segments joined
CaptureOf(R) ==
  IF USE_POSITIONAL_PARAMS
  THEN IF MaxPlaceholder(PatternOf(R)) >= 1 /\ Len(R.segments) > MaxPlaceholder(PatternOf(R))
       THEN {[key |-> NumToString(MaxPlaceholder(PatternOf(R))),
              value |-> Join(SubSeq(R.segments, MaxPlaceholder(PatternOf(R)), Len(R.segments)),
                             sSlash)]}
       ELSE {}
  ELSE IF CaptureKeys(R.segments) # {}
       THEN {[key |-> SubSeq(R.segments[Least(CaptureKeys(R.segments))], 1,
                             Len(R.segments[Least(CaptureKeys(R.segments))]) - 5),
              value |-> Join(SubSeq(R.segments, Least(CaptureKeys(R.segments)) + 1,
                                    Len(R.segments)), sSlash)]}
       ELSE {}

\* C40: in every parameter set that resolution produces, in either mode, at
\* most one value contains "/", and that value is the one the capture rule
\* produced (the "-last" key in NAMED mode, the highest-numbered placeholder in
\* POSITIONAL mode); every other value is a single segment.
C40_OnlyTheCaptureHoldsSlashes ==
  \A R \in Handled :
    /\ Cardinality(Slashed(R.params)) <= 1
    /\ \A k \in Slashed(R.params) : [key |-> k, value |-> R.params[k]] \in CaptureOf(R)
    /\ \A k \in DOMAIN R.params \ Slashed(R.params) :
         \E j \in 1..Len(R.segments) : R.params[k] = R.segments[j]

\* A parameter set of two keys of which the captured one holds a "/"
C40_Witness ==
  \E R \in Handled :
    /\ Cardinality(DOMAIN R.params) >= 2
    /\ Slashed(R.params) # {}
    /\ R.fetches = 1

====
